---- MODULE Spec2Model ----
(***************************************************************************)
(* A model of the SDLite bootstrap installer                               *)
(* (tools/installer/SDLiteInstaller.c): the downloader                     *)
(* (download_with_progress), the extraction wait                           *)
(* (wait_dir_stable_nonempty), the directory helpers                       *)
(* (ensure_dir_recursive, ensure_parent_dirs_for_file) and the project     *)
(* root search (find_project_root_near).                                   *)
(*                                                                         *)
(* Each component is a state machine of its own over the module's          *)
(* variables, with its own initial predicate and specification; the        *)
(* variables of the other components keep their idle values.               *)
(***************************************************************************)
EXTENDS Integers, Sequences, FiniteSets, TLC

(***************************************************************************)
(* Bounds of the model.                                                    *)
(***************************************************************************)
\* Longest redirect chain a server of the model serves.
MaxChain == 7
\* Largest body and largest declared length, in units of ByteUnit bytes.
MaxBody == 3
\* Largest timeoutSeconds wait_dir_stable_nonempty is called with.
MaxTimeoutSec == 1
\* Longest delay of a poll beyond its Sleep(200), in units of LagMs.
MaxLag == 1
\* Largest file count and directory count of a directory snapshot.
MaxEntries == 1
\* Largest total byte size of a directory snapshot.
MaxBytes == 1
\* Most parent directories of the file path ensure_parent_dirs_for_file is
\* called with.
MaxParents == 2
\* Longest chain of wrapper directories under the directory the search for
\* the project root starts in.
MaxWrap == 12
\* Most wrapper directories around a directory of many directories.
MaxWrapFilled == 1
\* Most calls of the flatten functions in a row.
MaxFlattens == 2

(***************************************************************************)
(* Program constants.                                                      *)
(***************************************************************************)
\* for (int hop = 0; hop < 6; ++hop)
HopLimit == 6
\* if (sz < 1024): the size below which a finished download is only warned about
SmallSize == 1024
\* if (stableTicks >= 6)
StableNeeded == 6
\* Sleep(200)
PollMs == 200
\* (now - start) / 1000
MsPerSec == 1000
\* return hits >= 2
RootHits == 2
\* for (int depth = 0; depth < 10; ++depth)
UnwrapDepth == 10
\* wchar_t candidates[32][4096]
MaxCandidates == 32

\* The model moves bytes in units of half the warning threshold, so that
\* finished files fall on both sides of it.
ByteUnit == SmallSize \div 2

Min(a, b) == IF a < b THEN a ELSE b
Max(a, b) == IF a > b THEN a ELSE b

(***************************************************************************)
(* State.                                                                  *)
(***************************************************************************)
VARIABLES
    \* ---- download_with_progress
    dl_pc,        \* "start", "loop", "body", "finish", "done", "fatal"
    hop,          \* the for loop's counter
    url,          \* index of the URL being requested: 0 is url0, i the i-th Location
    status,       \* the last HTTP status read (0: none yet)
    outFile,      \* size of the destination file in bytes, NoFile when it does not exist
    totalGot,     \* bytes received of the current response
    hasLen,       \* the current response declares a Content-Length
    totalLen,     \* the declared length
    usedMarquee,  \* the progress bar is in marquee (indeterminate) mode
    bar,          \* position of the progress bar, 0..100
    dl_err,       \* the fatal error raised, "none" when none
    smallWarned,  \* the "download is very small" warning was logged
    srv,          \* the server: [chain, status, hasLen, len, body]
    chainOk,      \* history: every redirect answer so far was a followed code with a Location
    location,     \* history: the answer received last carried a Location header
    faulted,      \* history: a transport or disk fault was injected
    \* ---- wait_dir_stable_nonempty
    ws_pc,        \* "poll", "sleep", "returned", "timeout"
    timeoutSeconds,
    elapsed,      \* now - start, in milliseconds
    dirStats,     \* what dir_stats_recurse finds now: [files, dirs, bytes]
    prev,         \* the snapshot of the poll before
    stableTicks,
    polls,        \* history: the number of polls taken
    lastPoll,     \* history: the snapshot the last poll observed, NoPoll before the first
    equalRun,     \* history: the number of latest polls in a row that observed a
                  \* non-empty snapshot equal to the one of the poll before
    allDiffer,    \* history: every poll observed another snapshot than the poll before
    unchanged,    \* history: the directory has not changed since the call
    \* ---- the file system
    fs,           \* [dirs: the directories, files: the content of each regular file]
    findOrder,    \* the order FindFirstFileW/FindNextFileW list a directory in
    \* ---- ensure_parent_dirs_for_file and the file create that follows it
    mk_pc,        \* "call", "ensured", "created", "fatal"
    filePath,     \* the path the call is given, a string
    fs0,          \* history: the file system at the call
    \* ---- find_project_root_near
    loc_pc,       \* "unwrap", "direct", "one", "two", "found", "notfound"
    startDir,
    cur,
    depth,        \* the unwrap loop's counter
    candidates,   \* candidates[0..candCount-1]
    outDir,       \* the directory returned, NoDir when none
    \* ---- a run that moves, deletes and flattens
    fatal,        \* fatalf was called: the process is gone
    ignored,      \* the calls that failed without the code looking at it
    \* ---- the flatten functions
    fl_op,        \* the last call: "single", "toolchain", "none"
    fl_rets,      \* history: what the calls returned, -1 for void
    fl_before,    \* history: the file system at the last call
    \* ---- install_run
    in_pc,        \* the statement install_run is at
    arch,         \* the archive at work: 1 the repo, 2 SDL2, 3 SDL2_image
    installing,   \* g_ui.installing
    archives,     \* what each of the three ZIP files holds: [d, f]
    repoRoot,     \* the directory selected as the repo root, NoDir before
    log,          \* the warnings and the validation lines logged so far
    trace,        \* history: the phases gone through, <<phase, archive>> each
    wnd,          \* g_ui.wnd is a window: FALSE once DestroyWindow was called
    beeped,       \* history: WndProc has refused a WM_CLOSE
    \* ---- the camera helpers
    cam_pc,       \* "call" before cam_clamp, "returned" after it
    cam_x,        \* *cam_x
    cam_y,        \* *cam_y
    view_w,       \* the arguments of cam_clamp
    view_h,
    world_w,
    world_h

dlVars == <<dl_pc, hop, url, status, outFile, totalGot, hasLen, totalLen,
            usedMarquee, bar, dl_err, smallWarned, srv, chainOk, location, faulted>>

wsVars == <<ws_pc, timeoutSeconds, elapsed, dirStats, prev, stableTicks,
            polls, lastPoll, equalRun, allDiffer, unchanged>>

fsVars == <<fs, findOrder>>

mkVars == <<mk_pc, filePath, fs0>>

locVars == <<loc_pc, startDir, cur, depth, candidates, outDir>>

runVars == <<fatal, ignored>>

flVars == <<fl_op, fl_rets, fl_before>>

inVars == <<in_pc, arch, installing, archives, repoRoot, log, trace, wnd, beeped>>

camVars == <<cam_pc, cam_x, cam_y, view_w, view_h, world_w, world_h>>

vars == <<dlVars, wsVars, fsVars, mkVars, locVars, runVars, flVars, inVars, camVars>>

(***************************************************************************)
(* The idle values of each component's variables.                          *)
(***************************************************************************)
NoFile == -1

\* ZeroMemory(&prev, sizeof(prev))
ZeroStats == [files |-> 0, dirs |-> 0, bytes |-> 0]

NoPoll == [files |-> -1, dirs |-> -1, bytes |-> -1]

DlIdle ==
    /\ dl_pc = "idle" /\ hop = 0 /\ url = 0 /\ status = 0 /\ outFile = NoFile
    /\ totalGot = 0 /\ hasLen = FALSE /\ totalLen = 0 /\ usedMarquee = FALSE
    /\ bar = 0 /\ dl_err = "none" /\ smallWarned = FALSE
    /\ srv = [chain |-> 0, status |-> 200, hasLen |-> FALSE, len |-> 0, body |-> 0]
    /\ chainOk = TRUE /\ location = FALSE /\ faulted = FALSE

WsIdle ==
    /\ ws_pc = "idle" /\ timeoutSeconds = 0 /\ elapsed = 0
    /\ dirStats = ZeroStats /\ prev = ZeroStats /\ stableTicks = 0
    /\ polls = 0 /\ lastPoll = NoPoll /\ equalRun = 0
    /\ allDiffer = TRUE /\ unchanged = TRUE

\* A file system with nothing but the root of the volume.
EmptyFs == [dirs |-> {<<>>}, files |-> <<>>]

NoDir == <<"">>

FsIdle == fs = EmptyFs /\ findOrder = "asc"

MkIdle == mk_pc = "idle" /\ filePath = <<>> /\ fs0 = EmptyFs

LocIdle ==
    /\ loc_pc = "idle" /\ startDir = <<>> /\ cur = <<>> /\ depth = 0
    /\ candidates = <<>> /\ outDir = NoDir

FlIdle ==
    /\ fatal = FALSE /\ ignored = {}
    /\ fl_op = "none" /\ fl_rets = <<>> /\ fl_before = EmptyFs

CamIdle ==
    /\ cam_pc = "idle" /\ cam_x = 0 /\ cam_y = 0
    /\ view_w = 0 /\ view_h = 0 /\ world_w = 0 /\ world_h = 0

InIdle ==
    /\ in_pc = "idle" /\ arch = 0 /\ installing = FALSE
    /\ archives = <<>> /\ repoRoot = NoDir /\ log = <<>> /\ trace = <<>>
    /\ wnd = TRUE /\ beeped = FALSE

(***************************************************************************)
(* The downloader: download_with_progress(url0, dstPath, label).           *)
(***************************************************************************)
RedirectCodesAny3xx == 300..399

\* The statuses the code treats as a redirect.
RedirectCodes == {301, 302, 303, 307, 308}
\* The 3xx statuses a server of the model answers with while its chain lasts.
ChainCodes == RedirectCodes \cup {300}
\* The statuses of the final answer.
FinalCodes == {200, 204, 404}

BodySizes == {n * ByteUnit : n \in 0..MaxBody}

\* A server: `chain` redirect answers, then a final answer with `status`,
\* a Content-Length header (`hasLen`, `len`) and `body` bytes before the
\* end of the body.
Servers ==
    [chain : 0..MaxChain, status : FinalCodes, hasLen : BOOLEAN,
     len : BodySizes, body : BodySizes]

ui_set_pct_unclamped(pct) == pct

\* ui_set_pct: clamps to 0..100 and leaves marquee mode.
ui_set_pct(pct) == Max(0, Min(100, pct))

\* int pct = (int)((totalGot * 100ULL) / totalLen);
PctOf(got, total) == (got * 100) \div total

InitDownload ==
    /\ CamIdle
    /\ WsIdle /\ FsIdle /\ MkIdle /\ LocIdle /\ FlIdle /\ InIdle
    /\ dl_pc = "start" /\ hop = 0 /\ url = 0 /\ status = 0
    /\ outFile \in {NoFile} \cup BodySizes
    /\ totalGot = 0 /\ hasLen = FALSE /\ totalLen = 0 /\ usedMarquee = FALSE
    /\ bar = 0 /\ dl_err = "none" /\ smallWarned = FALSE
    /\ srv \in Servers
    /\ chainOk = TRUE /\ location = FALSE /\ faulted = FALSE

\* The downloader touches nothing of the other components.
DlFrame == UNCHANGED <<wsVars, fsVars, mkVars, locVars, runVars, flVars, inVars, camVars>>

\* fatalf: a message box, then ExitProcess(1).
DlFatal(err) ==
    /\ dl_pc' = "fatal"
    /\ dl_err' = err

DlCreate_late ==
    /\ DlFrame
    /\ dl_pc = "start"
    /\ dl_pc' = "loop"
    /\ bar' = ui_set_pct(0)
    /\ UNCHANGED <<outFile, dl_err, faulted, hop, url, status, totalGot, hasLen,
                   totalLen, usedMarquee, smallWarned, srv, chainOk, location>>

\* Lines 489-516: the destination file is created (or truncated) before any
\* request; WinHttpOpen opens the session.
DlCreate ==
    /\ DlFrame
    /\ dl_pc = "start"
    /\ \/ /\ outFile' = 0
          /\ dl_pc' = "loop"
          /\ UNCHANGED <<dl_err, faulted>>
       \/ \* CreateFileW fails
          /\ DlFatal("FileSystemError")
          /\ faulted' = TRUE
          /\ UNCHANGED outFile
       \/ \* WinHttpOpen fails
          /\ outFile' = 0
          /\ DlFatal("NetworkError")
          /\ faulted' = TRUE
    /\ bar' = ui_set_pct(0)
    /\ UNCHANGED <<hop, url, status, totalGot, hasLen, totalLen, usedMarquee,
                   smallWarned, srv, chainOk, location>>

\* The answer to a redirect status (lines 571-596): without a Location the
\* fetch is fatal; with one the file is emptied, the counter reset and the
\* loop continues with the next hop.
DlRedirect(code, hasLoc) ==
    /\ status' = code
    /\ IF ~hasLoc
         THEN /\ DlFatal("RedirectError")
              /\ UNCHANGED <<hop, url, outFile, totalGot, usedMarquee, bar>>
         ELSE /\ outFile' = 0
              /\ totalGot' = 0
              /\ usedMarquee' = FALSE
              /\ bar' = ui_set_pct(0)
              /\ url' = url + 1
              /\ hop' = hop + 1
              /\ UNCHANGED <<dl_pc, dl_err>>
    /\ UNCHANGED <<hasLen, totalLen>>

DlFinalStatus_any2xx(code, declares, len) ==
    /\ status' = code
    /\ IF code \notin 200..299
         THEN /\ DlFatal("HttpStatusError")
              /\ UNCHANGED <<hasLen, totalLen, usedMarquee>>
         ELSE /\ hasLen' = declares
              /\ totalLen' = IF declares THEN len ELSE 0
              /\ usedMarquee' = (~declares \/ len = 0)
              /\ dl_pc' = "body"
              /\ UNCHANGED dl_err
    /\ UNCHANGED <<hop, url, outFile, totalGot, bar>>

\* The answer to any other status (lines 598-614): fatal unless it is 200;
\* then the Content-Length decides between percentage and marquee.
DlFinalStatus(code, declares, len) ==
    /\ status' = code
    /\ IF code # 200
         THEN /\ DlFatal("HttpStatusError")
              /\ UNCHANGED <<hasLen, totalLen, usedMarquee>>
         ELSE /\ hasLen' = declares
              /\ totalLen' = IF declares THEN len ELSE 0
              /\ usedMarquee' = (~declares \/ len = 0)
              /\ dl_pc' = "body"
              /\ UNCHANGED dl_err
    /\ UNCHANGED <<hop, url, outFile, totalGot, bar>>

\* One iteration of the hop loop up to the body (lines 519-614): a request
\* to the current URL and the handling of its status.
DlRequest ==
    /\ DlFrame
    /\ dl_pc = "loop"
    /\ hop < HopLimit
    /\ \/ \* connect, open, send or receive fails
          /\ DlFatal("NetworkError")
          /\ faulted' = TRUE
          /\ UNCHANGED <<hop, url, status, outFile, totalGot, hasLen, totalLen,
                         usedMarquee, bar, chainOk, location>>
       \/ \* the server still redirects: the URL is the url-th of its chain
          /\ url < srv.chain
          /\ \E code \in ChainCodes, hasLoc \in BOOLEAN :
                /\ chainOk' = (chainOk /\ hasLoc /\ code \in RedirectCodes)
                /\ location' = hasLoc
                /\ IF code \in RedirectCodes
                     THEN DlRedirect(code, hasLoc)
                     ELSE DlFinalStatus(code, FALSE, 0)
          /\ UNCHANGED faulted
       \/ \* the final resource
          /\ url >= srv.chain
          /\ DlFinalStatus(srv.status, srv.hasLen, srv.len)
          /\ location' = FALSE
          /\ UNCHANGED <<chainOk, faulted>>
    /\ UNCHANGED <<smallWarned, srv>>

\* The hop loop ends because hop reached the limit (line 519): control falls
\* through to the code after the loop.
DlLoopExit ==
    /\ DlFrame
    /\ dl_pc = "loop"
    /\ hop >= HopLimit
    /\ dl_pc' = "finish"
    /\ UNCHANGED <<hop, url, status, outFile, totalGot, hasLen, totalLen,
                   usedMarquee, bar, dl_err, smallWarned, srv, chainOk, location, faulted>>

\* One iteration of the download loop (lines 617-658).
DlRead ==
    /\ DlFrame
    /\ dl_pc = "body"
    /\ \/ \* WinHttpQueryDataAvailable or WinHttpReadData fails
          /\ DlFatal("NetworkError")
          /\ faulted' = TRUE
          /\ UNCHANGED <<outFile, totalGot, bar>>
       \/ \* avail == 0: the end of the body; break, then break out of the hop loop
          /\ totalGot = srv.body
          /\ dl_pc' = "finish"
          /\ UNCHANGED <<outFile, totalGot, bar, dl_err, faulted>>
       \/ \* a chunk is read
          /\ totalGot < srv.body
          /\ \E read \in {n * ByteUnit : n \in 1..MaxBody} :
                /\ read <= srv.body - totalGot
                /\ \/ \* WriteFile fails, or writes less than was read
                      /\ \E wrote \in {0, read - 1} :
                            outFile' = outFile + wrote
                      /\ DlFatal("FileSystemError")
                      /\ faulted' = TRUE
                      /\ UNCHANGED <<totalGot, bar>>
                   \/ /\ outFile' = outFile + read
                      /\ totalGot' = totalGot + read
                      /\ bar' = IF hasLen /\ totalLen > 0
                                  THEN ui_set_pct(PctOf(totalGot + read, totalLen))
                                  ELSE bar
                      /\ UNCHANGED <<dl_pc, dl_err, faulted>>
    /\ UNCHANGED <<hop, url, status, hasLen, totalLen, usedMarquee,
                   smallWarned, srv, chainOk, location>>

DlFinish_smallIsFatal ==
    /\ DlFrame
    /\ dl_pc = "finish"
    /\ usedMarquee' = FALSE
    /\ bar' = ui_set_pct(100)
    /\ smallWarned' = FALSE
    /\ IF outFile < SmallSize
         THEN DlFatal("FileSystemError")
         ELSE dl_pc' = "done" /\ UNCHANGED dl_err
    /\ UNCHANGED <<hop, url, status, outFile, totalGot, hasLen, totalLen,
                   srv, chainOk, location, faulted>>

\* After the loop (lines 665-681): the file is closed, the bar set to 100
\* and the size logged; a file under 1 KiB is only warned about.
DlFinish ==
    /\ DlFrame
    /\ dl_pc = "finish"
    /\ usedMarquee' = FALSE
    /\ bar' = ui_set_pct(100)
    /\ smallWarned' = (outFile < SmallSize)
    /\ dl_pc' = "done"
    /\ UNCHANGED <<hop, url, status, outFile, totalGot, hasLen, totalLen,
                   dl_err, srv, chainOk, location, faulted>>

NextDownload ==
    \/ DlCreate
    \/ DlRequest
    \/ DlLoopExit
    \/ DlRead
    \/ DlFinish

SpecDownload == InitDownload /\ [][NextDownload]_vars

DlReturned == dl_pc = "done"
DlEnded == dl_pc \in {"done", "fatal"}

(***************************************************************************)
(* The extraction wait: wait_dir_stable_nonempty(dir, timeoutSeconds, what)*)
(***************************************************************************)
\* DirStats, as dir_stats_recurse fills it; without files there are no bytes.
Snapshots ==
    {s \in [files : 0..MaxEntries, dirs : 0..MaxEntries, bytes : 0..MaxBytes] :
        s.files = 0 => s.bytes = 0}

\* int nonempty = (cur.files + cur.dirs) > 0;
NonEmpty(snap) == (snap.files + snap.dirs) > 0

\* int stable = (cur.files == prev.files) && (cur.dirs == prev.dirs) && (cur.bytes == prev.bytes);
StableIgnoringBytes(snap, old) ==
    (snap.files = old.files) /\ (snap.dirs = old.dirs)
Stable(snap, old) ==
    (snap.files = old.files) /\ (snap.dirs = old.dirs) /\ (snap.bytes = old.bytes)

\* if (nonempty && stable) stableTicks++; else stableTicks = 0;
NextTicksNoReset(ticks, nonempty, stable) ==
    IF nonempty /\ stable THEN ticks + 1 ELSE ticks
NextTicks(ticks, nonempty, stable) ==
    IF nonempty /\ stable THEN ticks + 1 ELSE 0

\* if (stableTicks >= 6) return;
StableReachedLate(ticks) == ticks > StableNeeded
StableReached(ticks) == ticks >= StableNeeded

\* if ((int)((now - start) / 1000) > timeoutSeconds) fatalf(...)
TimedOut(ms, limit) == (ms \div MsPerSec) > limit

\* A poll is late by whole multiples of half the poll interval: the walk of
\* the directory and the message pump take time, Sleep(200) sleeps at least
\* 200 ms.
LagMs == PollMs \div 2

WsFrame == UNCHANGED <<dlVars, fsVars, mkVars, locVars, runVars, flVars, inVars, camVars>>

\* Lines 832-837: the start of the call.  The extraction may have written
\* anything, or nothing, by then.
InitWait ==
    /\ CamIdle
    /\ DlIdle /\ FsIdle /\ MkIdle /\ LocIdle /\ FlIdle /\ InIdle
    /\ ws_pc = "poll"
    /\ timeoutSeconds \in 0..MaxTimeoutSec
    /\ elapsed = 0
    /\ dirStats \in Snapshots
    /\ prev = ZeroStats
    /\ stableTicks = 0
    /\ polls = 0 /\ lastPoll = NoPoll /\ equalRun = 0
    /\ allDiffer = TRUE /\ unchanged = TRUE

\* Lines 840-857: one snapshot of the directory, compared with the one
\* before; the call returns once enough polls in a row were stable.
WsPoll ==
    /\ WsFrame
    /\ ws_pc = "poll"
    /\ LET snap == dirStats
           ticks == NextTicks(stableTicks, NonEmpty(snap), Stable(snap, prev))
       IN  /\ prev' = snap
           /\ stableTicks' = ticks
           /\ ws_pc' = IF StableReached(ticks) THEN "returned" ELSE "sleep"
           /\ polls' = polls + 1
           /\ lastPoll' = snap
           /\ equalRun' = IF lastPoll # NoPoll /\ snap = lastPoll /\ NonEmpty(snap)
                            THEN equalRun + 1 ELSE 0
           /\ allDiffer' = (allDiffer /\ snap # lastPoll)
    /\ UNCHANGED <<timeoutSeconds, elapsed, dirStats, unchanged>>

\* Lines 859-865: the message pump, Sleep(200) and the timeout check.  The
\* shell's CopyHere runs on its own: while the call sleeps the directory
\* becomes whatever the extraction makes of it.
WsSleep ==
    /\ WsFrame
    /\ ws_pc = "sleep"
    /\ \E lag \in 0..MaxLag :
          /\ elapsed' = elapsed + PollMs + lag * LagMs
          /\ ws_pc' = IF TimedOut(elapsed + PollMs + lag * LagMs, timeoutSeconds)
                        THEN "timeout" ELSE "poll"
    /\ \E s \in Snapshots :
          /\ dirStats' = s
          /\ unchanged' = (unchanged /\ s = dirStats)
    /\ UNCHANGED <<timeoutSeconds, prev, stableTicks, polls, lastPoll, equalRun,
                   allDiffer>>

NextWait ==
    \/ WsPoll
    \/ WsSleep

\* The call is one thread that runs on: a poll that is due is taken, a
\* Sleep returns.
SpecWait == InitWait /\ [][NextWait]_vars /\ WF_vars(NextWait)

(***************************************************************************)
(* The file system.  A path of the file system is the sequence of its     *)
(* names from the root of the volume; the root always exists.  A path      *)
(* string of the program is a sequence of tokens: names, the separators    *)
(* "\\" and "/", and a leading drive "C:".                                 *)
(***************************************************************************)
Parent(p) == SubSeq(p, 1, Len(p) - 1)

\* _snwprintf(p, ARRAYSIZE(p), L"%s\\%s", dir, name)
Join(dir, name) == Append(dir, name)

IsPrefix(a, b) == Len(a) <= Len(b) /\ SubSeq(b, 1, Len(a)) = a

\* GetFileAttributesW on a path.
is_dir(f, p) == p \in f.dirs
is_file(f, p) == p \in DOMAIN f.files
path_exists(f, p) == is_dir(f, p) \/ is_file(f, p)

\* The file system with directories D and regular files F, each of content c.
MkFs(D, F, c) == [dirs |-> D \cup {<<>>}, files |-> [p \in F |-> c]]

\* The names FindFirstFileW/FindNextFileW report for dir\*, "." and ".."
\* left out.
ChildNames(f, dir) ==
    {p[Len(p)] : p \in {q \in f.dirs \cup DOMAIN f.files :
                            q # <<>> /\ Parent(q) = dir}}

\* The order of an enumeration is the file system's: by name on NTFS
\* ("asc"), another on other file systems.
Fillers == [i \in 1..MaxCandidates |-> "f" \o ToString(i)]
NameOrder ==
    <<".downloads", ".tmp_repo", ".tmp_sdl2", ".tmp_sdl2_image",
      "a", "b", "bin", "c", "d", "debug", "external">> \o Fillers
        \o <<"h", "include", "lib", "LICENSE", "old", "release", "repo.zip",
             "res", "SDL.h", "SDL2", "sdl2.zip", "SDL2_image",
             "sdl2_image.zip", "SDLite", "SDL_image.h", "src", "w">>
        \o [i \in 1..UnwrapDepth |-> "w" \o ToString(i)]
        \o <<"x", "x86_64-w64-mingw32">>
\* The names of S, each listed before the next.
InOrder(S, order) ==
    LET InS(n) == n \in S
        all == IF order = "asc" THEN NameOrder
               ELSE [i \in 1..Len(NameOrder) |-> NameOrder[Len(NameOrder) + 1 - i]]
    IN  SelectSeq(all, InS)

\* FindFirstFileW(dir\*) ... FindNextFileW: the entries of dir, in order.
FindFiles(f, dir, order) == InOrder(ChildNames(f, dir), order)

\* The names of FindFiles that are directories
\* (fd.dwFileAttributes & FILE_ATTRIBUTE_DIRECTORY).
FindDirs(f, dir, order) ==
    LET IsSubDir(n) == is_dir(f, Join(dir, n))
    IN  SelectSeq(FindFiles(f, dir, order), IsSubDir)

\* CreateDirectoryW(path, NULL) makes the last name of the path, when the
\* rest of it is a directory and nothing is at the path.
CreateDirectoryW_replacing(f, p) ==
    IF p # <<>> /\ is_dir(f, Parent(p)) /\ ~is_dir(f, p)
      THEN [dirs |-> f.dirs \cup {p},
            files |-> [q \in DOMAIN f.files \ {p} |-> f.files[q]]]
      ELSE f
CreateDirectoryW(f, p) ==
    IF p # <<>> /\ is_dir(f, Parent(p)) /\ ~path_exists(f, p)
      THEN [f EXCEPT !.dirs = @ \cup {p}]
      ELSE f

\* CreateFileW(path, GENERIC_WRITE, ..., CREATE_ALWAYS, ...) makes or
\* empties the regular file at the path; it fails when the path is a
\* directory or its parent is none.
CanCreateFile(f, p) == p # <<>> /\ is_dir(f, Parent(p)) /\ ~is_dir(f, p)
CreateFileW(f, p) ==
    [f EXCEPT !.files = [q \in DOMAIN @ \cup {p} |-> IF q = p THEN "" ELSE @[q]]]

\* The tokens of a path string: a drive, a separator or a name.
IsDrive(t) == t = "C:"
IsName(t) == t \notin {"\\", "/"} /\ ~IsDrive(t)

\* The path of the file system a path string names.
Resolve(s) == SelectSeq(s, IsName)

\* for (; s && *s; ++s) if (*s == L'/') *s = L'\\';
normalize_slashes(s) == [i \in 1..Len(s) |-> IF s[i] = "/" THEN "\\" ELSE s[i]]

\* PathRemoveFileSpecW (shlwapi) cuts the string before its last backslash,
\* and after the root ("C:\", "C:", "\") when the last backslash is part of
\* the root or there is none.
PathRemoveFileSpecW(s) ==
    LET seps == {i \in 1..Len(s) : s[i] = "\\"}
        last == IF seps = {} THEN 0 ELSE CHOOSE i \in seps : \A j \in seps : j <= i
        rootEnd == IF Len(s) >= 1 /\ IsDrive(s[1])
                     THEN (IF Len(s) >= 2 /\ s[2] = "\\" THEN 2 ELSE 1)
                     ELSE (IF Len(s) >= 1 /\ s[1] = "\\" THEN 1 ELSE 0)
    IN  SubSeq(s, 1, IF last > rootEnd THEN last - 1 ELSE rootEnd)

\* Lines 122-134: the loop over the characters of tmp from position i on;
\* at each backslash the string before it is created, the empty string and
\* a bare drive excepted.  No result of CreateDirectoryW is looked at.
RECURSIVE CreatePrefixes(_, _, _)
CreatePrefixes(f, tmp, i) ==
    IF i > Len(tmp) THEN f
    ELSE IF tmp[i] = "\\"
           THEN LET head == SubSeq(tmp, 1, i - 1)
                    g == IF Len(head) > 0 /\ ~(Len(head) = 1 /\ IsDrive(head[1]))
                           THEN CreateDirectoryW(f, Resolve(head))
                           ELSE f
                IN  CreatePrefixes(g, tmp, i + 1)
           ELSE CreatePrefixes(f, tmp, i + 1)

\* ensure_dir_recursive(dirPath), lines 113-136.
ensure_dir_recursive(f, dirPath) ==
    IF Len(dirPath) = 0 THEN f
    ELSE LET tmp == normalize_slashes(dirPath)
         IN  CreateDirectoryW(CreatePrefixes(f, tmp, 1), Resolve(tmp))

\* ensure_parent_dirs_for_file(filePath), lines 139-146.
ensure_parent_dirs_for_file(f, path) ==
    LET tmp == normalize_slashes(path)
        dir == PathRemoveFileSpecW(tmp)
    IN  IF dir = tmp THEN f
        ELSE IF Len(dir) > 0 THEN ensure_dir_recursive(f, dir) ELSE f

(***************************************************************************)
(* A file write as download_with_progress starts it (lines 493-499):       *)
(* ensure_parent_dirs_for_file(dstPath), then CreateFileW(dstPath).        *)
(***************************************************************************)
DirNames == <<"a", "b", "c", "d">>
FileName == "report.txt"

\* The separators a path string is written with.
SepOf(style, i) ==
    IF style = "back" THEN "\\"
    ELSE IF style = "fwd" THEN "/"
    ELSE IF i % 2 = 1 THEN "/" ELSE "\\"

\* The names of a file path with n parent directories.
FileNames(n) == [i \in 1..(n + 1) |-> IF i <= n THEN DirNames[i] ELSE FileName]

\* The path string of FileNames(n): relative, on a drive ("C:\a\..."), or
\* joined to the root of a drive ("C:\" and "\a\...": "C:\\a\...").
PathString(drive, n, style) ==
    LET head == IF drive = "none" THEN <<>>
                ELSE IF drive = "drive" THEN <<"C:", "\\">>
                ELSE <<"C:", "\\", "\\">>
        names == FileNames(n)
    IN  head \o [j \in 1..(2 * n + 1) |->
                    IF j % 2 = 1 THEN names[(j + 1) \div 2]
                                 ELSE SepOf(style, j \div 2)]

\* The file system the call finds: the first e names of the path are
\* directories, the next is a regular file, a directory or nothing.
FoundFs(n, e, what) ==
    LET P == FileNames(n)
        D == {SubSeq(P, 1, i) : i \in 0..e}
        next == SubSeq(P, 1, e + 1)
    IN  MkFs(IF what = "dir" THEN D \cup {next} ELSE D,
             IF what = "file" THEN {next} ELSE {}, "old")

MkFrame == UNCHANGED <<dlVars, wsVars, locVars, findOrder, runVars, flVars, inVars, camVars>>

InitDirs ==
    /\ CamIdle
    /\ DlIdle /\ WsIdle /\ LocIdle /\ FlIdle /\ InIdle
    /\ findOrder = "asc"
    /\ mk_pc = "call"
    /\ \E n \in 0..MaxParents, drive \in {"none", "drive", "root"},
          style \in {"back", "fwd", "mixed"} :
          /\ filePath = PathString(drive, n, style)
          /\ \E e \in 0..n, what \in {"none", "file", "dir"} :
                /\ what = "dir" => e = n
                /\ fs = FoundFs(n, e, what)
    /\ fs0 = fs

\* Line 493.
MkEnsure ==
    /\ MkFrame
    /\ mk_pc = "call"
    /\ fs' = ensure_parent_dirs_for_file(fs, filePath)
    /\ mk_pc' = "ensured"
    /\ UNCHANGED <<filePath, fs0>>

\* Lines 495-499: the file is made, or the call ends in
\* fatalf("Failed to create file").
MkCreateFile ==
    /\ MkFrame
    /\ mk_pc = "ensured"
    /\ LET p == Resolve(filePath)
       IN  IF CanCreateFile(fs, p)
             THEN fs' = CreateFileW(fs, p) /\ mk_pc' = "created"
             ELSE fs' = fs /\ mk_pc' = "fatal"
    /\ UNCHANGED <<filePath, fs0>>

NextDirs ==
    \/ MkEnsure
    \/ MkCreateFile

SpecDirs == InitDirs /\ [][NextDirs]_vars

(***************************************************************************)
(* The search for the project root: find_project_root_near(startDir,       *)
(* outDir, cap).                                                           *)
(***************************************************************************)
\* static const wchar_t *ROOT_MARKERS[] = { L"include", L"src", L"res" };
ROOT_MARKERS == {"include", "src", "res"}

\* looks_like_project_root(dir), lines 1014-1023.
looks_like_project_root_all(f, dir) ==
    Cardinality({m \in ROOT_MARKERS : is_dir(f, Join(dir, m))}) > RootHits
looks_like_project_root_any(f, dir) ==
    Cardinality({m \in ROOT_MARKERS : path_exists(f, Join(dir, m))}) >= RootHits
looks_like_project_root(f, dir) ==
    Cardinality({m \in ROOT_MARKERS : is_dir(f, Join(dir, m))}) >= RootHits

\* count_children_one_level(dir, &d, &f, only, cap), lines 977-1012: the
\* numbers of directories and of files in dir, and the name of the
\* directory when it is the only one.  A directory that cannot be listed
\* counts as empty.
count_children_one_level(f, dir, order) ==
    IF ~is_dir(f, dir) THEN [dirs |-> 0, files |-> 0, only |-> ""]
    ELSE LET all == FindFiles(f, dir, order)
             sub == FindDirs(f, dir, order)
         IN  [dirs |-> Len(sub), files |-> Len(all) - Len(sub),
              only |-> IF Len(sub) = 1 THEN sub[Len(sub)] ELSE ""]

\* if (d == 1 && f == 0 && only[0])
IsWrapperUnnamed(d, f, only) == d = 1 /\ f = 0 /\ only = ""
IsWrapperAmongFiles(d, f, only) == d = 1 /\ only # ""
IsWrapper(d, f, only) == d = 1 /\ f = 0 /\ only # ""

\* if (candCount < (int)ARRAYSIZE(candidates)) { ...; candCount++; }
KeepCandidatesAll(subs) == subs
KeepCandidates(subs) == SubSeq(subs, 1, Min(Len(subs), MaxCandidates))

\* The first directory of a list that looks like a project root, NoDir when
\* none does.
FirstRoot(f, list) ==
    LET hits == {i \in 1..Len(list) : looks_like_project_root(f, list[i])}
    IN  IF hits = {} THEN NoDir
        ELSE list[CHOOSE i \in hits : \A j \in hits : i <= j]

\* The directories of dir as the loops of lines 1075-1095 and 1107-1121
\* build them: dir\name for each directory listed.
SubDirPaths(f, dir, order) ==
    LET names == FindDirs(f, dir, order)
    IN  [i \in 1..Len(names) |-> Join(dir, names[i])]

\* The directories the loop of lines 1099-1123 looks at: those of
\* candidates[i], for i from 0 on.
RECURSIVE SecondLevel(_, _, _, _)
SecondLevel(f, cands, i, order) ==
    IF i > Len(cands) THEN <<>>
    ELSE SubDirPaths(f, cands[i], order) \o SecondLevel(f, cands, i + 1, order)

\* The directory the search starts in: the directory an archive was
\* extracted to.
Start == <<"t">>
Wrapper(k) == Start \o [i \in 1..k |-> "w"]

\* What an archive puts at a directory: nothing, an empty directory, a
\* project root, a directory with the markers as files, or a directory
\* around a project root.
Unpacked(p, kind) ==
    IF kind = "none" THEN MkFs({}, {}, "x")
    ELSE IF kind = "empty" THEN MkFs({p}, {}, "x")
    ELSE IF kind = "root" THEN MkFs({p, Join(p, "include"), Join(p, "src")}, {}, "x")
    ELSE IF kind = "files" THEN MkFs({p}, {Join(p, "include"), Join(p, "src")}, "x")
    ELSE MkFs({p, Join(p, "c"), Join(Join(p, "c"), "include"),
               Join(Join(p, "c"), "res")}, {}, "x")

\* An extracted archive: k wrappers, one in the other, and in the last of
\* them (the start directory when k = 0) the markers as mk says, a file
\* when lic, the directories a and b, and n empty directories more.
Extracted(k, mk, lic, ka, kb, n) ==
    LET S == Wrapper(k)
        A == Unpacked(Join(S, "a"), ka)
        B == Unpacked(Join(S, "b"), kb)
    IN  MkFs({Wrapper(j) : j \in 0..k}
                \cup {Join(S, Fillers[i]) : i \in 1..n}
                \cup {Join(S, m) : m \in {x \in ROOT_MARKERS : mk[x] = "dir"}}
                \cup A.dirs \cup B.dirs,
             {Join(S, m) : m \in {x \in ROOT_MARKERS : mk[x] = "file"}}
                \cup (IF lic THEN {Join(S, "LICENSE")} ELSE {})
                \cup DOMAIN A.files \cup DOMAIN B.files, "x")

LocFrame == UNCHANGED <<dlVars, wsVars, mkVars, fsVars, runVars, flVars, inVars, camVars>>

InitLocate ==
    /\ CamIdle
    /\ DlIdle /\ WsIdle /\ MkIdle /\ FlIdle /\ InIdle
    /\ findOrder \in {"asc", "desc"}
    /\ \E k \in 0..MaxWrap, mk \in [ROOT_MARKERS -> {"none", "dir", "file"}],
          lic \in BOOLEAN,
          ka \in {"none", "empty", "root", "files", "nest"},
          kb \in {"none", "root"},
          n \in {0, MaxCandidates - 1, MaxCandidates} :
          /\ n > 0 => k <= MaxWrapFilled
          /\ fs = Extracted(k, mk, lic, ka, kb, n)
    /\ loc_pc = "unwrap"
    /\ startDir = Start
    /\ cur = Start
    /\ depth = 0
    /\ candidates = <<>>
    /\ outDir = NoDir

\* Lines 1034-1055: one turn of the unwrap loop.
LocUnwrap ==
    /\ LocFrame
    /\ loc_pc = "unwrap"
    /\ depth < UnwrapDepth
    /\ IF looks_like_project_root(fs, cur)
         THEN /\ loc_pc' = "found"
              /\ outDir' = cur
              /\ UNCHANGED <<cur, depth>>
         ELSE LET c == count_children_one_level(fs, cur, findOrder)
              IN  IF IsWrapper(c.dirs, c.files, c.only)
                    THEN /\ cur' = Join(cur, c.only)
                         /\ depth' = depth + 1
                         /\ UNCHANGED <<loc_pc, outDir>>
                    ELSE /\ loc_pc' = "direct"
                         /\ UNCHANGED <<cur, depth, outDir>>
    /\ UNCHANGED <<startDir, candidates>>

\* Line 1034: the loop ends after its last turn.
LocUnwrapEnd ==
    /\ LocFrame
    /\ loc_pc = "unwrap"
    /\ depth >= UnwrapDepth
    /\ loc_pc' = "direct"
    /\ UNCHANGED <<startDir, cur, depth, candidates, outDir>>

\* Lines 1057-1061: the direct check.
LocDirect ==
    /\ LocFrame
    /\ loc_pc = "direct"
    /\ IF looks_like_project_root(fs, cur)
         THEN loc_pc' = "found" /\ outDir' = cur
         ELSE loc_pc' = "one" /\ UNCHANGED outDir
    /\ UNCHANGED <<startDir, cur, depth, candidates>>

\* Lines 1063-1096: the directories of cur; the first that looks like a
\* project root is returned, else the first MaxCandidates of them are kept.
LocOneLevel ==
    /\ LocFrame
    /\ loc_pc = "one"
    /\ IF ~is_dir(fs, cur)
         THEN loc_pc' = "notfound" /\ UNCHANGED <<candidates, outDir>>
         ELSE LET subs == SubDirPaths(fs, cur, findOrder)
                  hit == FirstRoot(fs, subs)
              IN  IF hit # NoDir
                    THEN /\ loc_pc' = "found"
                         /\ outDir' = hit
                         /\ UNCHANGED candidates
                    ELSE /\ loc_pc' = "two"
                         /\ candidates' = KeepCandidates(subs)
                         /\ UNCHANGED outDir
    /\ UNCHANGED <<startDir, cur, depth>>

\* Lines 1098-1125: the directories of the candidates.
LocTwoLevel ==
    /\ LocFrame
    /\ loc_pc = "two"
    /\ LET hit == FirstRoot(fs, SecondLevel(fs, candidates, 1, findOrder))
       IN  IF hit # NoDir
             THEN loc_pc' = "found" /\ outDir' = hit
             ELSE loc_pc' = "notfound" /\ UNCHANGED outDir
    /\ UNCHANGED <<startDir, cur, depth, candidates>>

NextLocate ==
    \/ LocUnwrap
    \/ LocUnwrapEnd
    \/ LocDirect
    \/ LocOneLevel
    \/ LocTwoLevel

SpecLocate == InitLocate /\ [][NextLocate]_vars

LocEnded == loc_pc \in {"found", "notfound"}

(***************************************************************************)
(* Moving, deleting and flattening trees.  The operations work on a run    *)
(* r = [fs, fatal, ignored]: the file system, whether fatalf ended the     *)
(* process (nothing is done after it), and the calls whose failure the     *)
(* code did not look at.                                                   *)
(***************************************************************************)
Now == [fs |-> fs, fatal |-> fatal, ignored |-> ignored]

\* The run goes on as r.
Becomes(r) == fs' = r.fs /\ fatal' = r.fatal /\ ignored' = r.ignored

\* The string of a path: its names with a backslash between them.
PathText(p) ==
    [j \in 1..(2 * Len(p) - 1) |-> IF j % 2 = 1 THEN p[(j + 1) \div 2] ELSE "\\"]

\* ensure_dir_recursive(path) in a run.  The directory is missing
\* afterwards when a CreateDirectoryW failed for another reason than the
\* directory being there.
EnsureDir(r, p) ==
    IF r.fatal THEN r
    ELSE LET g == ensure_dir_recursive(r.fs, PathText(p))
         IN  [r EXCEPT !.fs = g,
                       !.ignored = IF is_dir(g, p) THEN @ ELSE @ \cup {"CreateDirectoryW"}]

\* DeleteFileW(path) removes a regular file.
DeleteFileW(f, p) ==
    [f EXCEPT !.files = [q \in DOMAIN @ \ {p} |-> @[q]]]

\* RemoveDirectoryW(path) in a run: it removes an empty directory and fails
\* on any other; the result is not looked at.  A directory that stays is a
\* failure the code did not look at.
RemoveDir(r, p) ==
    IF r.fatal \/ ~is_dir(r.fs, p) THEN r
    ELSE IF ChildNames(r.fs, p) = {}
           THEN [r EXCEPT !.fs.dirs = @ \ {p}]
           ELSE [r EXCEPT !.ignored = @ \cup {"RemoveDirectoryW"}]

\* MoveFileExW(src, dst, MOVEFILE_COPY_ALLOWED | MOVEFILE_REPLACE_EXISTING)
\* and CopyFileW(src, dst, FALSE) both need a regular file at src, a
\* directory to put dst in, and no directory at dst.
CanMoveFile(f, src, dst) ==
    is_file(f, src) /\ dst # <<>> /\ is_dir(f, Parent(dst)) /\ ~is_dir(f, dst)
MoveFileExW(f, src, dst) ==
    [f EXCEPT !.files = [q \in (DOMAIN @ \ {src}) \cup {dst} |->
                            IF q = dst THEN @[src] ELSE @[q]]]

CopyFileW(f, src, dst) ==
    [f EXCEPT !.files = [q \in DOMAIN @ \cup {dst} |->
                            IF q = dst THEN @[src] ELSE @[q]]]

\* What the tree does not decide about a file move: whether a process that
\* holds the source file open lets it be renamed, read, deleted.
Outcomes == [move : BOOLEAN, copy : BOOLEAN, del : BOOLEAN]
AllWork == [move |-> TRUE, copy |-> TRUE, del |-> TRUE]

\* move_file_safe(src, dst), lines 923-936: the file at dst is deleted, src
\* is renamed, else copied and then deleted; the results of the two
\* deletes are not looked at.
move_file_safe(r, src, dst, io) ==
    IF r.fatal THEN r
    ELSE LET f1 == ensure_parent_dirs_for_file(r.fs, PathText(dst))
             f2 == DeleteFileW(f1, dst)
         IN  IF CanMoveFile(f2, src, dst) /\ io.move
               THEN [r EXCEPT !.fs = MoveFileExW(f2, src, dst)]
             ELSE IF CanMoveFile(f2, src, dst) /\ io.copy
               THEN IF io.del
                      THEN [r EXCEPT !.fs = DeleteFileW(CopyFileW(f2, src, dst), src)]
                      ELSE [r EXCEPT !.fs = CopyFileW(f2, src, dst),
                                     !.ignored = @ \cup {"DeleteFileW"}]
             ELSE [r EXCEPT !.fs = f2, !.fatal = TRUE]

\* move_tree_safe(src, dst), lines 939-974, and its loop over the entries
\* names[i..] of src.
RECURSIVE move_tree_safe(_, _, _, _, _)
RECURSIVE MoveEntries(_, _, _, _, _, _, _)
MoveEntries(r, src, dst, names, i, order, io) ==
    IF i > Len(names) \/ r.fatal THEN r
    ELSE LET s == Join(src, names[i])
             d == Join(dst, names[i])
             r1 == IF is_dir(r.fs, s)
                     THEN RemoveDir(move_tree_safe(r, s, d, order, io), s)
                     ELSE move_file_safe(r, s, d, io)
         IN  MoveEntries(r1, src, dst, names, i + 1, order, io)

move_tree_safe(r, src, dst, order, io) ==
    IF r.fatal \/ ~path_exists(r.fs, src) THEN r
    ELSE IF ~is_dir(r.fs, src) THEN move_file_safe(r, src, dst, io)
    ELSE LET r1 == EnsureDir(r, dst)
         IN  MoveEntries(r1, src, dst, FindFiles(r1.fs, src, order), 1, order, io)

delete_tree_nothing(r, path, order) == r

\* delete_tree(path), lines 1166-1202, and its loop over the entries
\* names[i..] of path.
RECURSIVE delete_tree(_, _, _)
RECURSIVE DeleteEntries(_, _, _, _, _)
DeleteEntries(r, path, names, i, order) ==
    IF i > Len(names) THEN r
    ELSE LET p == Join(path, names[i])
             r1 == IF is_dir(r.fs, p)
                     THEN RemoveDir(delete_tree(r, p, order), p)
                     ELSE [r EXCEPT !.fs = DeleteFileW(r.fs, p)]
         IN  DeleteEntries(r1, path, names, i + 1, order)

delete_tree(r, path, order) ==
    IF r.fatal \/ ~path_exists(r.fs, path) THEN r
    ELSE IF ~is_dir(r.fs, path) THEN [r EXCEPT !.fs = DeleteFileW(r.fs, path)]
    ELSE RemoveDir(DeleteEntries(r, path, FindFiles(r.fs, path, order), 1, order), path)

\* The entries names[i..] of a directory, each moved into dir by
\* move_tree_safe: the loops of lines 1148-1157 and 1260-1268.  What the
\* tree does not decide about a file move is taken to work.
RECURSIVE MoveUp(_, _, _, _, _, _)
MoveUp(r, inner, dir, names, i, order) ==
    IF i > Len(names) THEN r
    ELSE MoveUp(move_tree_safe(r, Join(inner, names[i]), Join(dir, names[i]), order,
                               AllWork),
                inner, dir, names, i + 1, order)

\* flatten_single_dir_wrapper(dir) returns 1: lines 1130-1133.
FlattenApplies(f, dir, order) ==
    LET c == count_children_one_level(f, dir, order)
    IN  IsWrapper(c.dirs, c.files, c.only)

\* flatten_single_dir_wrapper(dir), lines 1129-1162.
flatten_single_dir_wrapper(r, dir, order) ==
    IF r.fatal \/ ~FlattenApplies(r.fs, dir, order) THEN r
    ELSE LET inner == Join(dir, count_children_one_level(r.fs, dir, order).only)
         IN  RemoveDir(MoveUp(r, inner, dir, FindFiles(r.fs, inner, order), 1, order),
                       inner)

\* _snwprintf(toolchain, ..., L"%s\\x86_64-w64-mingw32", rootDir)
TOOLCHAIN == "x86_64-w64-mingw32"

flatten_sdl_toolchain_folder_nothing(r, rootDir, order) == r

\* flatten_sdl_toolchain_folder(rootDir), lines 1244-1272.
flatten_sdl_toolchain_folder(r, rootDir, order) ==
    LET toolchain == Join(rootDir, TOOLCHAIN)
    IN  IF r.fatal \/ ~is_dir(r.fs, toolchain) THEN r
        ELSE RemoveDir(MoveUp(r, toolchain, rootDir,
                              FindFiles(r.fs, toolchain, order), 1, order),
                       toolchain)

(***************************************************************************)
(* Calls of flatten_single_dir_wrapper(dir) and                            *)
(* flatten_sdl_toolchain_folder(dir) on a directory of an extracted        *)
(* archive.                                                                *)
(***************************************************************************)
\* The file system with the directories D and the files F below p, each
\* file of content c.
Under(p, D, F, c) == MkFs({p \o q : q \in D}, {p \o q : q \in F}, c)

FsUnion(f, g) == [dirs |-> f.dirs \cup g.dirs, files |-> f.files @@ g.files]

\* What the archive holds in a directory of it: nothing (the directory is
\* not there), an empty directory, files, directories with a file in one
\* of them, or both.
Shape(kind) ==
    IF kind = "none" THEN [d |-> {}, f |-> {}]
    ELSE IF kind = "empty" THEN [d |-> {<<>>}, f |-> {}]
    ELSE IF kind = "files" THEN [d |-> {<<>>}, f |-> {<<"x">>}]
    ELSE IF kind = "dirs"
      THEN [d |-> {<<>>, <<"include">>, <<"lib">>}, f |-> {<<"include", "h">>}]
    ELSE [d |-> {<<>>, <<"include">>, <<"lib">>}, f |-> {<<"x">>, <<"include", "h">>}]

FlDir == <<"t">>

\* The directory the calls are made on: the directory w and the toolchain
\* directory as wk and tk say, next to them a file when lic and an entry
\* include (a directory with a file h, or a file) as sib says.
Flattenable(wk, tk, lic, sib) ==
    FsUnion(FsUnion(Under(Join(FlDir, "w"), Shape(wk).d, Shape(wk).f, "w"),
                    Under(Join(FlDir, TOOLCHAIN), Shape(tk).d, Shape(tk).f, "t")),
            Under(FlDir,
                  {<<>>} \cup (IF sib = "dir" THEN {<<"include">>} ELSE {}),
                  (IF lic THEN {<<"LICENSE">>} ELSE {})
                     \cup (IF sib = "dir" THEN {<<"include", "h">>} ELSE {})
                     \cup (IF sib = "file" THEN {<<"include">>} ELSE {}),
                  "old"))

FlFrame == UNCHANGED <<dlVars, wsVars, mkVars, locVars, findOrder, inVars, camVars>>

InitFlatten ==
    /\ CamIdle
    /\ DlIdle /\ WsIdle /\ MkIdle /\ LocIdle /\ InIdle
    /\ findOrder \in {"asc", "desc"}
    /\ \E wk \in {"none", "empty", "files", "dirs", "mixed"},
          tk \in {"none", "empty", "files", "dirs", "mixed"},
          lic \in BOOLEAN, sib \in {"none", "dir", "file"} :
          fs = Flattenable(wk, tk, lic, sib)
    /\ fatal = FALSE /\ ignored = {}
    /\ fl_op = "none" /\ fl_rets = <<>> /\ fl_before = fs

\* A call of flatten_single_dir_wrapper(dir).
FlSingle ==
    /\ FlFrame
    /\ ~fatal /\ Len(fl_rets) < MaxFlattens
    /\ Becomes(flatten_single_dir_wrapper(Now, FlDir, findOrder))
    /\ fl_op' = "single"
    /\ fl_rets' = Append(fl_rets, IF FlattenApplies(fs, FlDir, findOrder) THEN 1 ELSE 0)
    /\ fl_before' = fs

\* A call of flatten_sdl_toolchain_folder(dir).
FlToolchain ==
    /\ FlFrame
    /\ ~fatal /\ Len(fl_rets) < MaxFlattens
    /\ Becomes(flatten_sdl_toolchain_folder(Now, FlDir, findOrder))
    /\ fl_op' = "toolchain"
    /\ fl_rets' = Append(fl_rets, -1)
    /\ fl_before' = fs

NextFlatten ==
    \/ FlSingle
    \/ FlToolchain

SpecFlatten == InitFlatten /\ [][NextFlatten]_vars

(***************************************************************************)
(* install_run(): the installer from the choice of the folder to the       *)
(* message box at the end.                                                 *)
(***************************************************************************)
\* The folder the user chose, and #define INSTALL_SUBFOLDER L"SDLite".
Chosen == <<"d">>
installDir == Join(Chosen, "SDLite")

\* Lines 1301-1304 and 1375-1378: the names of the temporary directories.
TempNamesButSdl2 == {".downloads", ".tmp_repo", ".tmp_sdl2_image"}
TempNames == {".downloads", ".tmp_repo", ".tmp_sdl2", ".tmp_sdl2_image"}
dlDir == Join(installDir, ".downloads")

\* Per archive (1 the repo, 2 SDL2, 3 SDL2_image): the ZIP file it is
\* downloaded to, the directory it is extracted to, the directory its
\* content is moved to, and the header looked for in the extracted
\* directory (none for the repo).
ZipPath == <<Join(dlDir, "repo.zip"), Join(dlDir, "sdl2.zip"), Join(dlDir, "sdl2_image.zip")>>
TmpDir ==
    <<Join(installDir, ".tmp_repo"), Join(installDir, ".tmp_sdl2"),
      Join(installDir, ".tmp_sdl2_image")>>
DstDir ==
    <<installDir, installDir \o <<"external", "SDL2">>,
      installDir \o <<"external", "SDL2_image">>>>
Marker == <<<<>>, <<"include", "SDL2", "SDL.h">>, <<"include", "SDL2", "SDL_image.h">>>>

\* for (int i = 0; i < 6; ++i) and for (int i = 0; i < 12; ++i)
FallbackFlattens == 6
DepFlattens == 12

\* fatalf(...): a message box, then ExitProcess(1).  Nothing runs after it.
fatalf(r) == [r EXCEPT !.fatal = TRUE]
AliveAlways == TRUE
Alive == ~fatal

\* The loops of lines 1350-1352, 1407-1414 and 1459-1466: at most n calls
\* of flatten_single_dir_wrapper(dir), ended by the first that returns 0
\* and, when a marker is given, by the marker being a file of dir.
RECURSIVE FlattenLoop(_, _, _, _, _)
FlattenLoop(r, dir, marker, n, order) ==
    IF n = 0 \/ r.fatal THEN r
    ELSE IF marker # <<>> /\ is_file(r.fs, dir \o marker) THEN r
    ELSE IF ~FlattenApplies(r.fs, dir, order) THEN r
    ELSE FlattenLoop(flatten_single_dir_wrapper(r, dir, order), dir, marker, n - 1, order)

\* Lines 1344-1353: no root was found; the extraction directory is
\* unwrapped as far as it goes.
fallback_fatal(r, order) == fatalf(r)
fallback(r, order) == FlattenLoop(r, TmpDir[1], <<>>, FallbackFlattens, order)

\* The loops of lines 1370-1386, 1434-1444 and 1484-1494: every entry of
\* src but those named in skip is moved into dst by move_tree_safe.
MoveInto_parent(r, src, dst, skip, order) ==
    LET Kept(n) == n \notin skip
    IN  MoveUp(r, src, Parent(dst), SelectSeq(FindFiles(r.fs, src, order), Kept), 1, order)
MoveInto(r, src, dst, skip, order) ==
    LET Kept(n) == n \notin skip
    IN  MoveUp(r, src, dst, SelectSeq(FindFiles(r.fs, src, order), Kept), 1, order)

\* ensure_install_structure(installDir), lines 1206-1218.
STRUCTURE ==
    <<<<"include">>, <<"src">>, <<"res">>, <<"external", "SDL2">>,
      <<"external", "SDL2_image">>, <<"bin", "debug">>, <<"bin", "release">>>>
RECURSIVE EnsureEach(_, _, _, _)
EnsureEach(r, root, list, i) ==
    IF i > Len(list) THEN r
    ELSE EnsureEach(EnsureDir(r, root \o list[i]), root, list, i + 1)
ensure_install_structure(r, root) == EnsureEach(r, root, STRUCTURE, 1)

\* Lines 1506-1509: the directories removed at the end, in this order.
CleanupDirsButDownloads == <<TmpDir[1], TmpDir[2], TmpDir[3]>>
CleanupDirs == <<TmpDir[1], TmpDir[2], TmpDir[3], dlDir>>
RECURSIVE DeleteEach(_, _, _, _)
DeleteEach(r, list, i, order) ==
    IF i > Len(list) THEN r
    ELSE DeleteEach(delete_tree(r, list[i], order), list, i + 1, order)

\* validate_and_log(installDir), lines 1220-1240: the lines it logs.
validate_and_log_headers(f, root) ==
    LET Line(what, ok) == <<what, IF ok THEN "OK" ELSE "WARNING">>
    IN  <<Line("SDL2 headers", is_file(f, root \o <<"external", "SDL2">> \o Marker[2])),
          Line("SDL2_image headers",
               is_file(f, root \o <<"external", "SDL2_image">> \o Marker[3]))>>
validate_and_log(f, root) ==
    LET Line(what, ok) == <<what, IF ok THEN "OK" ELSE "WARNING">>
    IN  <<Line("include/", is_dir(f, Join(root, "include"))),
          Line("src/", is_dir(f, Join(root, "src"))),
          Line("res/", is_dir(f, Join(root, "res"))),
          Line("SDL2 headers", is_file(f, root \o <<"external", "SDL2">> \o Marker[2])),
          Line("SDL2_image headers",
               is_file(f, root \o <<"external", "SDL2_image">> \o Marker[3]))>>

\* The order of the statements that handle a dependency after its
\* extraction (lines 1407-1446, 1459-1494), and of those after the last
\* dependency (lines 1499-1519).
DepOrderMergeFirst == <<"place", "unwrap", "toolchain">>
DepOrder == <<"unwrap", "toolchain", "place">>
EndOrderValidateFirst == <<"structure", "validate", "cleanup", "finish">>
EndOrder == <<"structure", "cleanup", "validate", "finish">>

\* The statement after step in an order, last when step is the last.
After(order, step, last) ==
    LET i == CHOOSE k \in 1..Len(order) : order[k] = step
    IN  IF i < Len(order) THEN order[i + 1] ELSE last

\* A ZIP file with the directories D and the files F, and every directory
\* above one of them.
Zip(D, F) ==
    [d |-> UNION {{SubSeq(p, 1, k) : k \in 0..Len(p)} : p \in D}
             \cup UNION {{SubSeq(p, 1, k) : k \in 0..(Len(p) - 1)} : p \in F},
     f |-> F]

\* shell_extract_zip copies the items of the ZIP file into destDir.
Unzip(f, destDir, z) == FsUnion(Under(destDir, z.d, z.f, "new"), f)

\* The names of wrapper directories, one in the other.
WrapNames == [i \in 1..UnwrapDepth |-> "w" \o ToString(i)]

\* The repo archives: the root in a wrapper, no wrapper, no markers at
\* all, the root in UnwrapDepth wrappers, a wrapper around a file of its
\* own name, a root that holds names of temporary directories, nothing.
RepoZip(kind) ==
    LET w == <<WrapNames[1]>>
    IN  CASE kind = "root" ->
               Zip({w \o <<"include">>, w \o <<"res">>},
                   {w \o <<"src", "x">>, w \o <<"LICENSE">>})
          [] kind = "flat" -> Zip({<<"include">>}, {<<"src", "x">>})
          [] kind = "plain" -> Zip({}, {w \o <<"a", "x">>, w \o <<"LICENSE">>})
          [] kind = "deep" -> Zip({WrapNames \o <<"include">>, WrapNames \o <<"src">>}, {})
          [] kind = "clash" -> Zip({}, {w \o w})
          [] kind = "temps" ->
               Zip({w \o <<"include">>, w \o <<"src">>},
                   {w \o <<".tmp_sdl2", "x">>, w \o <<".downloads">>})
          [] OTHER -> Zip({}, {})

\* The dependency archives, h the header: the MinGW package (a wrapper
\* around the toolchain folder), the headers at the top, the toolchain
\* folder next to a file, a wrapper that also holds names of temporary
\* directories, a wrapper without the header.
DepZip(kind, h) ==
    LET w == <<WrapNames[1]>>
    IN  CASE kind = "mingw" ->
               Zip({}, {w \o <<TOOLCHAIN, "include", "SDL2", h>>,
                        w \o <<TOOLCHAIN, "lib", "x">>, w \o <<TOOLCHAIN, "bin", "x">>})
          [] kind = "flat" -> Zip({}, {<<"include", "SDL2", h>>})
          [] kind = "tool" ->
               Zip({}, {<<TOOLCHAIN, "include", "SDL2", h>>, <<"LICENSE">>})
          [] kind = "temps" ->
               Zip({}, {w \o <<"include", "SDL2", h>>, w \o <<".tmp_sdl2", "x">>,
                        w \o <<".downloads">>})
          [] OTHER -> Zip({}, {w \o <<"x">>})

\* What is on the disk before: the chosen folder and nothing else, an
\* earlier install, an install folder with a file named external, a file
\* named SDLite; each time with a file next to the install folder.
Disk(kind) ==
    LET beside == MkFs({Chosen}, {Join(Chosen, "LICENSE")}, "old")
    IN  CASE kind = "fresh" -> beside
          [] kind = "again" ->
               FsUnion(beside,
                       Under(installDir,
                             Zip({}, {<<"external", "SDL2", "include", "SDL2", "SDL.h">>,
                                      <<"external", "SDL2", "old">>, <<"src", "x">>}).d,
                             {<<"external", "SDL2", "include", "SDL2", "SDL.h">>,
                              <<"external", "SDL2", "old">>, <<"src", "x">>}, "old"))
          [] kind = "blocked" ->
               FsUnion(beside, MkFs({Chosen, installDir}, {Join(installDir, "external")}, "old"))
          [] OTHER -> FsUnion(beside, MkFs({Chosen}, {installDir}, "old"))

InFrame ==
    UNCHANGED <<dlVars, wsVars, mkVars, findOrder, fl_op, fl_rets, fl_before, wnd, beeped,
                camVars>>

\* install_run has set g_ui.installing (line 1275) and is at the folder
\* dialog; the window of ui_create is there.
InitInstall ==
    /\ CamIdle
    /\ DlIdle /\ WsIdle /\ MkIdle /\ LocIdle
    /\ findOrder \in {"asc", "desc"}
    /\ fs \in {Disk(k) : k \in {"fresh", "again", "blocked", "file"}}
    /\ fatal = FALSE /\ ignored = {}
    /\ fl_op = "none" /\ fl_rets = <<>> /\ fl_before = EmptyFs
    /\ in_pc = "pick" /\ arch = 0 /\ installing = TRUE
    /\ wnd = TRUE /\ beeped = FALSE
    /\ \E kr \in {"root", "flat", "plain", "deep", "clash", "temps", "empty"},
          ks \in {"mingw", "flat", "tool", "temps", "bare"}, ki \in {"mingw", "flat"} :
          archives = <<RepoZip(kr), DepZip(ks, "SDL.h"), DepZip(ki, "SDL_image.h")>>
    /\ repoRoot = NoDir /\ log = <<>> /\ trace = <<>>

\* The run goes on as r at the statement step for archive i, phases gone
\* through; fatalf ends it where it is.
Goes(r, step, i, phases) ==
    /\ Becomes(r)
    /\ in_pc' = IF r.fatal THEN in_pc ELSE step
    /\ arch' = IF r.fatal THEN arch ELSE i
    /\ trace' = trace \o phases \o (IF r.fatal THEN <<<<"Failed", arch>>>> ELSE <<>>)

InPick_dirsFirst ==
    /\ InFrame /\ UNCHANGED <<locVars, archives, repoRoot>>
    /\ Alive /\ in_pc = "pick"
    /\ \E chose \in BOOLEAN :
          /\ installing' = chose
          /\ log' = IF chose THEN log ELSE Append(log, <<"Cancelled by user.", "INFO">>)
          /\ Goes(EnsureDir(Now, installDir), IF chose THEN "dirs" ELSE "returned", 0,
                  <<<<"SelectingDestination", 0>>>>)

\* Lines 1275-1291: the folder dialog; the user chooses or cancels.
InPick ==
    /\ InFrame /\ UNCHANGED <<locVars, archives, repoRoot>>
    /\ Alive /\ in_pc = "pick"
    /\ \E chose \in BOOLEAN :
          /\ installing' = chose
          /\ log' = IF chose THEN log ELSE Append(log, <<"Cancelled by user.", "INFO">>)
          /\ Goes(Now, IF chose THEN "dirs" ELSE "returned", 0,
                  <<<<"SelectingDestination", 0>>>>)

\* Lines 1293-1310: the install directory and the temporary directories.
InDirs ==
    /\ InFrame /\ UNCHANGED <<locVars, archives, repoRoot, installing, log>>
    /\ Alive /\ in_pc = "dirs"
    /\ Goes(EnsureEach(EnsureDir(Now, installDir), <<>>,
                       <<dlDir, TmpDir[1], TmpDir[2], TmpDir[3]>>, 1),
            "download", 1, <<>>)

InDownload_thenExtract ==
    /\ InFrame /\ UNCHANGED <<locVars, archives, repoRoot, installing, log>>
    /\ Alive /\ in_pc = "download"
    /\ \E ok \in BOOLEAN :
          LET zip == ZipPath[arch]
              r == IF CanCreateFile(fs, zip)
                     THEN [Now EXCEPT !.fs = CreateFileW(fs, zip), !.fatal = ~ok]
                     ELSE fatalf(Now)
          IN  Goes(r, IF arch < 2 THEN "download" ELSE "extract",
                   IF arch < 2 THEN arch + 1 ELSE 1, <<<<"Downloading", arch>>>>)

\* Lines 1322-1328: download_with_progress(url, zip, ...) of one archive;
\* it creates the file, and ends the process when that or the transfer
\* fails.
InDownload ==
    /\ InFrame /\ UNCHANGED <<locVars, archives, repoRoot, installing, log>>
    /\ Alive /\ in_pc = "download"
    /\ \E ok \in BOOLEAN :
          LET zip == ZipPath[arch]
              r == IF CanCreateFile(fs, zip)
                     THEN [Now EXCEPT !.fs = CreateFileW(fs, zip), !.fatal = ~ok]
                     ELSE fatalf(Now)
          IN  Goes(r, IF arch < 3 THEN "download" ELSE "extract",
                   IF arch < 3 THEN arch + 1 ELSE 1, <<<<"Downloading", arch>>>>)

\* Lines 1336-1339, 1399-1400, 1454-1455: shell_extract_zip(zip, tmp) and
\* the fatalf on its failure.  It fails without the ZIP file or the
\* directory, and when the shell says so.
InExtract ==
    /\ InFrame /\ UNCHANGED <<locVars, archives, repoRoot, installing, log>>
    /\ Alive /\ in_pc = "extract"
    /\ \E ok \in BOOLEAN :
          LET tmp == TmpDir[arch]
              r1 == EnsureDir(Now, tmp)
              r == IF ok /\ is_file(r1.fs, ZipPath[arch]) /\ is_dir(r1.fs, tmp)
                     THEN [r1 EXCEPT !.fs = Unzip(r1.fs, tmp, archives[arch])]
                     ELSE fatalf(r1)
          IN  Goes(r, "wait", arch, <<<<"Extracting", arch>>>>)

\* Lines 1340, 1401, 1456: wait_dir_stable_nonempty(tmp, 60, ...) returns,
\* or ends the process on its timeout; an empty directory never settles.
InWait ==
    /\ InFrame /\ UNCHANGED <<locVars, archives, repoRoot, installing, log>>
    /\ Alive /\ in_pc = "wait"
    /\ \E ok \in BOOLEAN :
          Goes(IF ok /\ ChildNames(fs, TmpDir[arch]) # {} THEN Now ELSE fatalf(Now),
               IF arch = 1 THEN "locate" ELSE DepOrder[1], arch, <<>>)

\* Line 1344: the call of find_project_root_near(tmpRepo, ...).
InLocate ==
    /\ InFrame /\ UNCHANGED <<archives, repoRoot, installing, log>>
    /\ Alive /\ in_pc = "locate"
    /\ loc_pc' = "unwrap" /\ startDir' = TmpDir[1] /\ cur' = TmpDir[1]
    /\ depth' = 0 /\ candidates' = <<>> /\ outDir' = NoDir
    /\ Goes(Now, "root", 1, <<<<"LocatingRoot", 1>>>>)

\* Lines 1344-1354: the root is the directory found, else tmpRepo after the
\* fallback, with a warning.
InRoot ==
    /\ InFrame /\ UNCHANGED <<locVars, archives, installing>>
    /\ Alive /\ in_pc = "root" /\ LocEnded
    /\ IF loc_pc = "found"
         THEN /\ repoRoot' = outDir
              /\ log' = log
              /\ Goes(Now, "merge", 1, <<>>)
         ELSE /\ repoRoot' = TmpDir[1]
              /\ log' = Append(log, <<"repo root", "WARNING">>)
              /\ Goes(fallback(Now, findOrder), "merge", 1, <<>>)

\* Lines 1356-1389: the entries of the root are moved into the install
\* directory.  FindFirstFileW fails when the root is no directory.
InMergeRepo ==
    /\ InFrame /\ UNCHANGED <<locVars, archives, repoRoot, installing, log>>
    /\ Alive /\ in_pc = "merge"
    /\ Goes(IF is_dir(fs, repoRoot)
              THEN MoveInto(Now, repoRoot, installDir, TempNames, findOrder)
              ELSE fatalf(Now),
            "structure", 1, <<<<"Merging", 1>>>>)

\* Lines 1392 and 1499: ensure_install_structure(installDir).
InStructure ==
    /\ InFrame /\ UNCHANGED <<locVars, archives, repoRoot, installing, log>>
    /\ Alive /\ in_pc = "structure"
    /\ Goes(ensure_install_structure(Now, installDir),
            IF arch = 1 THEN "extract" ELSE After(EndOrder, "structure", "done"),
            IF arch = 1 THEN 2 ELSE arch, <<>>)

\* What follows a statement of DepOrder: the next of them, then the next
\* archive, then the end.
AfterDep(step) ==
    After(DepOrder, step, IF arch < 3 THEN "extract" ELSE EndOrder[1])
ArchAfterDep(step) ==
    IF After(DepOrder, step, "") = "" /\ arch < 3 THEN arch + 1 ELSE arch

\* Lines 1406-1414 and 1458-1466: the wrappers are flattened.
InUnwrap ==
    /\ InFrame /\ UNCHANGED <<locVars, archives, repoRoot, installing, log>>
    /\ Alive /\ in_pc = "unwrap"
    /\ Goes(FlattenLoop(Now, TmpDir[arch], Marker[arch], DepFlattens, findOrder),
            AfterDep("unwrap"), ArchAfterDep("unwrap"), <<<<"Flattening", arch>>>>)

\* Lines 1416 and 1468: flatten_sdl_toolchain_folder(tmp).
InToolchain ==
    /\ InFrame /\ UNCHANGED <<locVars, archives, repoRoot, installing, log>>
    /\ Alive /\ in_pc = "toolchain"
    /\ Goes(flatten_sdl_toolchain_folder(Now, TmpDir[arch], findOrder),
            AfterDep("toolchain"), ArchAfterDep("toolchain"),
            <<<<"FlatteningToolchain", arch>>>>)

\* Lines 1420-1446 and 1470-1494: the destination is emptied and made, and
\* the entries of tmp are moved into it when tmp can be listed.
InPlace ==
    /\ InFrame /\ UNCHANGED <<locVars, archives, repoRoot, installing, log>>
    /\ Alive /\ in_pc = "place"
    /\ LET r1 == EnsureDir(delete_tree(Now, DstDir[arch], findOrder), DstDir[arch])
       IN  Goes(IF is_dir(r1.fs, TmpDir[arch])
                  THEN MoveInto(r1, TmpDir[arch], DstDir[arch], {}, findOrder)
                  ELSE r1,
                AfterDep("place"), ArchAfterDep("place"), <<<<"Merging", arch>>>>)

\* Lines 1501-1511: the temporary directories are removed.
InCleanup ==
    /\ InFrame /\ UNCHANGED <<locVars, archives, repoRoot, installing, log>>
    /\ Alive /\ in_pc = "cleanup"
    /\ Goes(DeleteEach(Now, CleanupDirs, 1, findOrder),
            After(EndOrder, "cleanup", "done"), arch, <<<<"CleaningUp", 0>>>>)

\* Line 1514: validate_and_log(installDir).
InValidate ==
    /\ InFrame /\ UNCHANGED <<locVars, archives, repoRoot, installing>>
    /\ Alive /\ in_pc = "validate"
    /\ log' = log \o validate_and_log(fs, installDir)
    /\ Goes(Now, After(EndOrder, "validate", "done"), arch, <<<<"Validating", 0>>>>)

\* Lines 1516-1534: "Done!", the window may be closed, the message box.
InFinish ==
    /\ InFrame /\ UNCHANGED <<locVars, archives, repoRoot, log>>
    /\ Alive /\ in_pc = "finish"
    /\ installing' = FALSE
    /\ Goes(Now, "done", arch, <<<<"Done", 0>>>>)

InClose_always ==
    /\ UNCHANGED <<dlVars, wsVars, fsVars, mkVars, locVars, runVars, flVars, camVars>>
    /\ UNCHANGED <<in_pc, arch, installing, archives, repoRoot, log, trace>>
    /\ Alive /\ wnd
    /\ wnd' = FALSE
    /\ beeped' = beeped

\* Lines 235-243: WndProc gets a WM_CLOSE, dispatched by a ui_pump of
\* the run or by the message loop after it (lines 182-188 and 1562-1565).
\* It beeps while g_ui.installing is set and destroys the window otherwise.
InClose ==
    /\ UNCHANGED <<dlVars, wsVars, fsVars, mkVars, locVars, runVars, flVars, camVars>>
    /\ UNCHANGED <<in_pc, arch, installing, archives, repoRoot, log, trace>>
    /\ Alive /\ wnd
    /\ wnd' = installing
    /\ beeped' = (beeped \/ installing)

NextInstall ==
    \/ InPick
    \/ InDirs
    \/ InDownload
    \/ InExtract
    \/ InWait
    \/ InLocate
    \/ LocUnwrap
    \/ LocUnwrapEnd
    \/ LocDirect
    \/ LocOneLevel
    \/ LocTwoLevel
    \/ InRoot
    \/ InMergeRepo
    \/ InStructure
    \/ InUnwrap
    \/ InToolchain
    \/ InPlace
    \/ InCleanup
    \/ InValidate
    \/ InFinish
    \/ InClose

SpecInstall == InitInstall /\ [][NextInstall]_vars

\* install_run is called by wmain and runs on its thread: validate_and_log
\* and the statements after it wait for nothing, so they run when reached.
FairInstall == SpecInstall /\ WF_vars(InValidate) /\ WF_vars(InFinish)

(***************************************************************************)
(* The camera: one call of cam_clamp.  The floats are the whole numbers    *)
(* of a small range, on which the comparisons and the subtraction of the   *)
(* function are exact.                                                     *)
(***************************************************************************)
MaxSize == 3
Sizes == 0..MaxSize
Positions == (0 - 1)..(MaxSize + 1)

\* cam_clamp, statement by statement; <<*cam_x, *cam_y>> at the end.
cam_clamp(cx, cy, vw, vh, ww, wh) ==
    LET x1 == IF ww <= vw THEN 0 ELSE cx
        y1 == IF wh <= vh THEN 0 ELSE cy
        x2 == IF x1 < 0 THEN 0 ELSE x1
        y2 == IF y1 < 0 THEN 0 ELSE y1
        x3 == IF x2 + vw > ww THEN ww - vw ELSE x2
        y3 == IF y2 + vh > wh THEN wh - vh ELSE y2
    IN  <<x3, y3>>

InitCamera ==
    /\ DlIdle /\ WsIdle /\ FsIdle /\ MkIdle /\ LocIdle /\ FlIdle /\ InIdle
    /\ cam_pc = "call"
    /\ cam_x \in Positions /\ cam_y \in Positions
    /\ view_w \in Sizes /\ view_h \in Sizes
    /\ world_w \in Sizes /\ world_h \in Sizes

CamClamp ==
    /\ UNCHANGED <<dlVars, wsVars, fsVars, mkVars, locVars, runVars, flVars, inVars>>
    /\ UNCHANGED <<view_w, view_h, world_w, world_h>>
    /\ cam_pc = "call"
    /\ cam_x' = cam_clamp(cam_x, cam_y, view_w, view_h, world_w, world_h)[1]
    /\ cam_y' = cam_clamp(cam_x, cam_y, view_w, view_h, world_w, world_h)[2]
    /\ cam_pc' = "returned"

SpecCamera == InitCamera /\ [][CamClamp]_vars

(***************************************************************************)
(* The moves: one call of move_file_safe(src, dst) or of                   *)
(* move_tree_safe(src, dst) on its own.                                    *)
(***************************************************************************)
MvSrc == <<"a">>
MvDst == <<"d", "b">>

\* What is at src: nothing, a file, an empty directory, a directory of
\* files, a directory of files and directories.
MoveSource(kind) ==
    CASE kind = "none" -> EmptyFs
      [] kind = "file" -> MkFs({}, {MvSrc}, "new")
      [] kind = "empty" -> MkFs({MvSrc}, {}, "new")
      [] kind = "files" -> Under(MvSrc, {<<>>}, {<<"x">>, <<"h">>}, "new")
      [] OTHER ->
           Under(MvSrc, Zip({<<"lib">>}, {<<"c", "x">>, <<"x">>}).d,
                 {<<"c", "x">>, <<"x">>}, "new")

\* What is at dst: not even its parent, the parent only, a file, an empty
\* directory, a directory with files of the same and of other names, a
\* directory with a file where src has a directory and a directory where
\* src has a file, a file in place of the parent.
MoveTarget(kind) ==
    LET parent == MkFs({Parent(MvDst)}, {}, "old")
    IN  CASE kind = "none" -> EmptyFs
          [] kind = "parent" -> parent
          [] kind = "file" -> FsUnion(parent, MkFs({}, {MvDst}, "old"))
          [] kind = "dir" -> FsUnion(parent, MkFs({MvDst}, {}, "old"))
          [] kind = "overlap" ->
               FsUnion(parent,
                       Under(MvDst, Zip({}, {<<"x">>, <<"c", "x">>, <<"old">>}).d,
                             {<<"x">>, <<"c", "x">>, <<"old">>}, "old"))
          [] kind = "crossed" ->
               FsUnion(parent, Under(MvDst, {<<>>, <<"x">>}, {<<"c">>}, "old"))
          [] OTHER -> MkFs({}, {Parent(MvDst)}, "old")

InitMove ==
    /\ CamIdle
    /\ DlIdle /\ WsIdle /\ MkIdle /\ LocIdle /\ InIdle
    /\ findOrder \in {"asc", "desc"}
    /\ \E sk \in {"none", "file", "empty", "files", "nested"},
          dk \in {"none", "parent", "file", "dir", "overlap", "crossed", "blocked"} :
          fs = FsUnion(MoveSource(sk), MoveTarget(dk))
    /\ fatal = FALSE /\ ignored = {}
    /\ fl_op = "none" /\ fl_rets = <<>> /\ fl_before = fs

\* A call of move_file_safe(src, dst); its callers have seen a regular
\* file at src (lines 943 and 966).
MvFile ==
    /\ FlFrame
    /\ fl_op = "none" /\ is_file(fs, MvSrc)
    /\ \E io \in Outcomes : Becomes(move_file_safe(Now, MvSrc, MvDst, io))
    /\ fl_op' = "move_file"
    /\ fl_rets' = Append(fl_rets, -1)
    /\ fl_before' = fs

\* A call of move_tree_safe(src, dst).
MvTree ==
    /\ FlFrame
    /\ fl_op = "none"
    /\ \E io \in Outcomes : Becomes(move_tree_safe(Now, MvSrc, MvDst, findOrder, io))
    /\ fl_op' = "move_tree"
    /\ fl_rets' = Append(fl_rets, -1)
    /\ fl_before' = fs

NextMove ==
    \/ MvFile
    \/ MvTree

SpecMove == InitMove /\ [][NextMove]_vars

(***************************************************************************)
(* Claims about the downloader.                                            *)
(***************************************************************************)
\* C1: a redirect chain longer than the hop limit, every answer of it a
\* redirect with a Location, ends the fetch in a fatal RedirectError: the
\* fetch never returns in that case.
C1_LongChainIsRedirectError ==
    (DlEnded /\ srv.chain > HopLimit /\ chainOk /\ ~faulted)
        => (dl_pc = "fatal" /\ dl_err = "RedirectError")

\* C2: for a chain of at most HopLimit valid redirects that ends in a 200
\* answer with a declared length and a body of that length, the fetch
\* returns and the destination file holds exactly the declared length.
C2_ChainResolvesToDeclaredLength ==
    (DlEnded /\ srv.chain <= HopLimit /\ chainOk /\ ~faulted
        /\ srv.status = 200 /\ srv.hasLen /\ srv.body = srv.len)
        => (DlReturned /\ outFile = srv.len)

(***************************************************************************)
(* Claims about the extraction wait.                                       *)
(***************************************************************************)
\* C3: the counter of stable polls is, after every poll, the number of
\* latest polls in a row that observed a non-empty snapshot equal to the one
\* of the poll before (so a poll that sees a change or an empty directory
\* sets it to 0), and the call returns only with at least StableNeeded such
\* polls and a non-empty directory.
C3_ReturnsOnlyNonEmptyAndStable ==
    /\ stableTicks = equalRun
    /\ ws_pc = "returned" =>
          /\ NonEmpty(dirStats)
          /\ equalRun >= StableNeeded
          /\ lastPoll = dirStats
          /\ polls > StableNeeded

C3_Witness ==
    /\ ws_pc = "returned"
    /\ ~unchanged
    /\ polls > StableNeeded + 2

\* The time is enough for StableNeeded poll intervals, however late each
\* poll is.
RoomToSettle ==
    ~TimedOut(StableNeeded * (PollMs + MaxLag * LagMs), timeoutSeconds)

\* C4: on a non-empty directory that never changes, the call returns (when
\* the timeout leaves room for it), and it returns with the poll after the
\* StableNeeded-th Sleep, so not before StableNeeded * PollMs have elapsed:
\* the first snapshot is compared with the all-zero one and never counts.
C4_UnchangedDirSucceedsAfterSixIntervals ==
    /\ [](ws_pc = "returned" /\ unchanged =>
            /\ polls = StableNeeded + 1
            /\ elapsed >= StableNeeded * PollMs)
    /\ [](ws_pc = "sleep" /\ polls = 1 => stableTicks = 0)
    /\ [](ws_pc = "timeout" /\ unchanged /\ NonEmpty(dirStats) => ~RoomToSettle)
    /\ <>(ws_pc = "returned" \/ ~unchanged \/ ~NonEmpty(dirStats) \/ ~RoomToSettle)

C4_Witness ==
    /\ ws_pc = "returned"
    /\ unchanged
    /\ elapsed > StableNeeded * PollMs

\* C5: on a directory whose snapshot differs at every poll the call never
\* returns, and it ends in the timeout error.
C5_ChangingDirTimesOut ==
    /\ [](allDiffer => ws_pc # "returned")
    /\ <>(ws_pc = "timeout" \/ ~allDiffer)

C5_Witness ==
    /\ ws_pc = "timeout"
    /\ allDiffer
    /\ polls > StableNeeded

\* C6: the first timeout check made after timeoutSeconds have elapsed raises
\* the error, so no poll is taken at an elapsed time beyond timeoutSeconds.
C6_NoPollBeyondTimeout ==
    ws_pc = "poll" => elapsed <= timeoutSeconds * MsPerSec

(***************************************************************************)
(* Claims about the directory helpers.                                     *)
(***************************************************************************)
\* C7: after ensure_parent_dirs_for_file(filePath) every ancestor of filePath
\* is a directory and no directory was made at filePath itself, and the
\* file create that follows succeeds (unless a directory was at filePath
\* before the call).
C7_AncestorsMadeNeverTheFile ==
    LET P == Resolve(filePath)
    IN  /\ mk_pc \in {"ensured", "created", "fatal"} =>
              /\ \A i \in 0..(Len(P) - 1) : is_dir(fs, SubSeq(P, 1, i))
              /\ is_dir(fs, P) => is_dir(fs0, P)
        /\ mk_pc = "fatal" => is_dir(fs0, P)

\* The part of C7 that holds of every call: the call makes directories at
\* proper ancestors of filePath only, and leaves every file as it is.
EnsureParentsSparesTheFile ==
    LET P == Resolve(filePath)
    IN  mk_pc = "ensured" =>
            /\ \A d \in fs.dirs \ fs0.dirs : IsPrefix(d, P) /\ d # P
            /\ fs.files = fs0.files

\* A file of the path's ancestors is in the way of the call.
Obstructed(f, P) == \E i \in 1..(Len(P) - 1) : is_file(f, SubSeq(P, 1, i))

\* Where no file is in the way, C7 holds as stated.
UnobstructedCallMakesAncestors ==
    Obstructed(fs0, Resolve(filePath)) \/ C7_AncestorsMadeNeverTheFile

(***************************************************************************)
(* Claims about the search for the project root.                           *)
(***************************************************************************)
\* The root predicate: two markers at least are directories of d.
RootPredicate(f, d) ==
    \E m \in ROOT_MARKERS, n \in ROOT_MARKERS :
        m # n /\ Join(d, m) \in f.dirs /\ Join(d, n) \in f.dirs

\* What is in d.
Entries(f, d) == {q \in f.dirs \cup DOMAIN f.files : q # <<>> /\ Parent(q) = d}

\* A pure wrapper holds one directory and nothing else.
PureWrapper(f, d) ==
    d \in f.dirs /\ Cardinality(Entries(f, d)) = 1 /\ Entries(f, d) \subseteq f.dirs

\* The directory k pure wrappers below d, NoDir when there is no such chain.
RECURSIVE ChainEnd(_, _, _)
ChainEnd(f, d, k) ==
    IF k = 0 THEN d
    ELSE IF PureWrapper(f, d)
           THEN ChainEnd(f, CHOOSE q \in Entries(f, d) : TRUE, k - 1)
           ELSE NoDir

\* C8: when a chain of k pure wrappers, 0 <= k <= 10, leads from the start
\* directory to a directory R that satisfies the root predicate, the search
\* returns exactly R.
C8_WrapperChainIsUnwrapped ==
    LocEnded =>
        \A k \in 0..UnwrapDepth :
            LET R == ChainEnd(fs, startDir, k)
            IN  (R # NoDir /\ RootPredicate(fs, R))
                    => (loc_pc = "found" /\ outDir = R)

C8_Witness ==
    /\ loc_pc = "found"
    /\ ChainEnd(fs, startDir, UnwrapDepth) = outDir
    /\ RootPredicate(fs, outDir)

\* C9: a start directory that satisfies the root predicate is returned
\* itself, whatever else it holds: the search neither descends from it nor
\* lists it.
C9_RootStartIsReturned ==
    RootPredicate(fs, startDir) =>
        /\ loc_pc \in {"unwrap", "found"}
        /\ cur = startDir /\ depth = 0 /\ candidates = <<>>
        /\ loc_pc = "found" => outDir = startDir

C9_Witness ==
    /\ loc_pc = "found" /\ outDir = startDir
    /\ RootPredicate(fs, Join(startDir, "a"))
    /\ RootPredicate(fs, Join(startDir, "b"))
    /\ is_file(fs, Join(startDir, "LICENSE"))

\* C10: a directory the search returns satisfies the root predicate (markers
\* that are regular files do not count) and is the start directory or below
\* it.
C10_FoundIsRootUnderStart ==
    loc_pc = "found" =>
        /\ RootPredicate(fs, outDir)
        /\ IsPrefix(startDir, outDir)

C10_Witness ==
    /\ loc_pc = "found"
    /\ Len(outDir) = Len(cur) + 2
    /\ Cardinality({m \in ROOT_MARKERS : is_file(fs, Join(cur, m))}) >= RootHits

\* The directories of d that are listed among its first MaxCandidates
\* directories.
FirstListed(f, d, order) ==
    LET names == InOrder({c[Len(c)] : c \in Entries(f, d) \cap f.dirs}, order)
    IN  {Join(d, names[i]) : i \in 1..Min(Len(names), MaxCandidates)}

\* C11: when the unwrapping stops at a directory D that is no root, a
\* directory of D that satisfies the root predicate is returned whenever
\* there is one; else a directory that satisfies it in one of the first 32
\* directories of D; and the search finds nothing exactly when there is
\* neither.
C11_ChildrenBeforeGrandchildren ==
    (LocEnded /\ ~RootPredicate(fs, cur)) =>
        LET childRoots == {c \in Entries(fs, cur) \cap fs.dirs : RootPredicate(fs, c)}
            grandRoots == {g \in fs.dirs :
                              /\ Parent(g) \in FirstListed(fs, cur, findOrder)
                              /\ RootPredicate(fs, g)}
        IN  /\ childRoots # {} => (loc_pc = "found" /\ outDir \in childRoots)
            /\ (childRoots = {} /\ grandRoots # {})
                    => (loc_pc = "found" /\ outDir \in grandRoots)
            /\ (childRoots = {} /\ grandRoots = {}) => loc_pc = "notfound"

\* Nothing is found though a directory two levels below D satisfies the
\* root predicate: it is in a directory listed after 32 others.
C11_Witness ==
    /\ loc_pc = "notfound"
    /\ Len(candidates) = MaxCandidates
    /\ \E g \in fs.dirs :
          Len(g) = Len(cur) + 2 /\ IsPrefix(cur, g) /\ RootPredicate(fs, g)

(***************************************************************************)
(* Claims about the flatten functions.                                     *)
(***************************************************************************)
\* Every entry below the directory inner of f0 is in f one level up, a
\* file with the content it had.
Lifted(f0, f, inner) ==
    LET Up(q) == Parent(inner) \o SubSeq(q, Len(inner) + 1, Len(q))
    IN  /\ \A q \in f0.dirs : (IsPrefix(inner, q) /\ q # inner) => Up(q) \in f.dirs
        /\ \A q \in DOMAIN f0.files :
              IsPrefix(inner, q) =>
                  (Up(q) \in DOMAIN f.files /\ f.files[Up(q)] = f0.files[q])

\* C13: on a directory with one directory W and no file in it,
\* flatten_single_dir_wrapper returns 1, and afterwards every entry of W is
\* in the directory itself, with all that is below it, and W is gone.
C13_WrapperIsDissolved ==
    (fl_op = "single" /\ PureWrapper(fl_before, FlDir)) =>
        LET W == CHOOSE q \in Entries(fl_before, FlDir) : TRUE
        IN  /\ fl_rets[Len(fl_rets)] = 1
            /\ ~fatal
            /\ Lifted(fl_before, fs, W)
            /\ ~path_exists(fs, W)

\* What of C13 holds: the call returns 1 and every entry of W is in the
\* directory itself afterwards; W is gone when it held no directory.
WrapperIsLifted ==
    (fl_op = "single" /\ PureWrapper(fl_before, FlDir)) =>
        LET W == CHOOSE q \in Entries(fl_before, FlDir) : TRUE
        IN  /\ fl_rets[Len(fl_rets)] = 1
            /\ ~fatal
            /\ Lifted(fl_before, fs, W)
            /\ Entries(fl_before, W) \cap fl_before.dirs = {} => ~path_exists(fs, W)

\* C14: on a directory that has not exactly one directory and no file in
\* it, flatten_single_dir_wrapper returns 0 and changes nothing.
C14_OtherShapesAreLeftAlone ==
    (fl_op = "single" /\ ~PureWrapper(fl_before, FlDir)) =>
        /\ fl_rets[Len(fl_rets)] = 0
        /\ fs = fl_before
        /\ ~fatal

\* A second call on a directory the first call flattened into three entries.
C14_Witness ==
    /\ fl_op = "single" /\ fl_rets = <<1, 0>>
    /\ fs = fl_before
    /\ Cardinality(Entries(fs, FlDir)) = 3

\* C15: when the directory holds a directory of the toolchain name,
\* whatever else it holds, flatten_sdl_toolchain_folder puts every entry of
\* that directory into the directory itself and the toolchain directory is
\* gone; when it holds none, nothing changes.
C15_ToolchainIsDissolved ==
    fl_op = "toolchain" =>
        IF is_dir(fl_before, Join(FlDir, TOOLCHAIN))
          THEN /\ ~fatal
               /\ Lifted(fl_before, fs, Join(FlDir, TOOLCHAIN))
               /\ ~path_exists(fs, Join(FlDir, TOOLCHAIN))
          ELSE fs = fl_before

\* What of C15 holds: without a directory of the toolchain name nothing
\* changes; with one, and nothing of another kind in the way of its
\* entries, every entry is in the directory itself afterwards, and the
\* toolchain directory is gone when it held no directory.
ToolchainIsLifted ==
    fl_op = "toolchain" =>
        LET T == Join(FlDir, TOOLCHAIN)
        IN  IF is_dir(fl_before, T)
              THEN fatal \/
                   /\ Lifted(fl_before, fs, T)
                   /\ Entries(fl_before, T) \cap fl_before.dirs = {} => ~path_exists(fs, T)
              ELSE fs = fl_before

(***************************************************************************)
(* Claims about install_run.                                               *)
(***************************************************************************)
\* The place of a phase in the trace, 0 when the run has not gone through
\* it.
Pos(phase, i) ==
    LET at == {k \in 1..Len(trace) : trace[k] = <<phase, i>>}
    IN  IF at = {} THEN 0 ELSE CHOOSE k \in at : \A j \in at : k <= j

Went(phase, i) == Pos(phase, i) > 0

\* The run went through b only after it went through a.
Before(a, i, b, j) == Went(b, j) => (Went(a, i) /\ Pos(a, i) < Pos(b, j))

RootWarned == \E k \in 1..Len(log) : log[k] = <<"repo root", "WARNING">>

\* A directory below dir holds a regular file of the directory's own name:
\* the file cannot be moved to where the directory is.
OwnNameFile(f, dir) ==
    \E p \in f.dirs : /\ IsPrefix(dir, p) /\ p # dir
                      /\ is_file(f, Join(p, p[Len(p)]))

C16_MergedBeforeToolchainFlattening ==
    \A i \in 1..3 : Before("Merging", i, "FlatteningToolchain", i)

\* C16, amended: the three archives are downloaded before the first is
\* extracted; the repo is extracted, its root located, and merged; each
\* dependency is extracted after the merge before it, its wrappers and then
\* its toolchain folder are flattened in its temporary directory, and only
\* then it is merged: when the merge starts the destination holds nothing
\* of the archive.
C16_FlattenedInTempThenMerged ==
    /\ \A i \in 1..3 : Before("Downloading", i, "Extracting", 1)
    /\ Before("Extracting", 1, "LocatingRoot", 1)
    /\ Before("LocatingRoot", 1, "Merging", 1)
    /\ \A i \in 2..3 :
          /\ Before("Merging", i - 1, "Extracting", i)
          /\ Before("Extracting", i, "Flattening", i)
          /\ Before("Flattening", i, "FlatteningToolchain", i)
          /\ Before("FlatteningToolchain", i, "Merging", i)
    /\ (in_pc = "place" /\ ~fatal) =>
          /\ Went("FlatteningToolchain", arch)
          /\ \A p \in DOMAIN fs.files :
                IsPrefix(DstDir[arch], p) => fs.files[p] = "old"

C16_Witness ==
    /\ in_pc = "done"
    /\ <<TOOLCHAIN>> \in archives[2].d
    /\ is_file(fs, DstDir[2] \o Marker[2])
    /\ Went("FlatteningToolchain", 3) /\ Went("Merging", 3)

C18_FailedIsTerminal ==
    /\ [](fatal => (in_pc # "done" /\ installing))
    /\ [][~fatal]_vars

C18_Witness ==
    /\ fatal /\ in_pc = "place" /\ arch = 2
    /\ Went("Merging", 1) /\ Went("Failed", 2)

\* C19: a call of the file system that fails ends the run at once: no
\* state has a failed call behind it unless the run has failed.
C19_EveryFailureAborts == ignored # {} => fatal

ValidatedPaths == <<"include/", "src/", "res/", "SDL2 headers", "SDL2_image headers">>
Present(f) ==
    <<is_dir(f, Join(installDir, "include")), is_dir(f, Join(installDir, "src")),
      is_dir(f, Join(installDir, "res")), is_file(f, DstDir[2] \o Marker[2]),
      is_file(f, DstDir[3] \o Marker[3])>>

\* C21: the validation adds one line to the log for each of the five paths,
\* OK when the path is there and WARNING when it is not, changes nothing on
\* the disk and never ends the run: the run goes on to Done.
C21_ValidationOnlyReports ==
    /\ [][(in_pc = "validate" /\ trace' # trace) =>
            /\ fs' = fs /\ ~fatal' /\ ignored' = ignored
            /\ Len(log') = Len(log) + 5
            /\ SubSeq(log', 1, Len(log)) = log
            /\ \A k \in 1..5 :
                  log'[Len(log) + k] =
                      <<ValidatedPaths[k], IF Present(fs)[k] THEN "OK" ELSE "WARNING">>]_vars
    /\ (in_pc = "validate") ~> (in_pc = "done" /\ ~fatal)

C21_Witness ==
    /\ in_pc = "done" /\ ~fatal
    /\ log[Len(log) - 4] = <<"include/", "OK">>
    /\ log[Len(log) - 1] = <<"SDL2 headers", "WARNING">>
    /\ ~is_file(fs, DstDir[2] \o Marker[2])

\* C22: ensure_install_structure run twice leaves what one run leaves, and
\* a run of it keeps every directory and every file with its content: it
\* only adds directories.  So does the step of install_run that calls it.
C22_StructureIdempotent ==
    /\ [](LET once == ensure_install_structure(Now, installDir)
              twice == ensure_install_structure(once, installDir)
          IN  /\ twice = once
              /\ fs.dirs \subseteq once.fs.dirs
              /\ once.fs.files = fs.files
              /\ once.fatal = fatal)
    /\ [][in_pc = "structure" =>
            fs.dirs \subseteq fs'.dirs /\ fs'.files = fs.files /\ ~fatal']_vars

C22_Witness ==
    /\ in_pc = "extract" /\ arch = 2 /\ ~fatal
    /\ is_file(fs, installDir \o <<"external", "SDL2", "old">>)
    /\ is_dir(fs, installDir \o <<"bin", "release">>)
    /\ is_dir(fs, installDir \o <<"external", "SDL2_image">>)

\* The entries of f below dir, each by its path from dir and what it is.
Paths(f) == f.dirs \cup DOMAIN f.files
What(f, q) ==
    IF is_file(f, q) THEN <<"file", f.files[q]>>
    ELSE IF is_dir(f, q) THEN <<"dir">> ELSE <<"none">>
Tree(f, dir) ==
    {<<SubSeq(q, Len(dir) + 1, Len(q)), What(f, q)>> :
        q \in {p \in Paths(f) : IsPrefix(dir, p) /\ p # dir}}

MergeSrc == IF in_pc = "merge" THEN repoRoot ELSE TmpDir[arch]
MergeDst == IF in_pc = "merge" THEN installDir ELSE DstDir[arch]

\* C24: a merge changes nothing outside the install directory; what it
\* makes or overwrites, other than in the temporary directory it empties,
\* is in its target directory, at the path the entry had in the source
\* directory, and is what the source held there.
C24_MergesStayInTree ==
    [][(in_pc = "merge" \/ in_pc = "place") =>
          \A q \in Paths(fs) \cup Paths(fs') :
             What(fs', q) # What(fs, q) =>
                /\ IsPrefix(installDir, q)
                /\ (What(fs', q) # <<"none">> /\ ~IsPrefix(TmpDir[arch], q)) =>
                      /\ IsPrefix(MergeDst, q)
                      /\ What(fs, MergeSrc \o SubSeq(q, Len(MergeDst) + 1, Len(q)))
                            = What(fs', q)]_vars

C24_Witness ==
    /\ in_pc = "done" /\ ~fatal
    /\ What(fs, Join(Chosen, "LICENSE")) = <<"file", "old">>
    /\ What(fs, Join(installDir, "LICENSE")) = <<"file", "new">>
    /\ What(fs, Join(DstDir[2], "LICENSE")) = <<"file", "new">>
    /\ Paths(fs) \ {p \in Paths(fs) : IsPrefix(installDir, p)}
          = {<<>>, Chosen, Join(Chosen, "LICENSE")}

\* The temporary directories of the run.
RunTempDirs == {dlDir, TmpDir[1], TmpDir[2], TmpDir[3]}
LastName(p) == p[Len(p)]

\* C25 as stated: every merge, of the repo and of a dependency, leaves an
\* entry of the source directory with the name of a temporary directory
\* where it is.
C25_EveryMergeSkipsTempNames ==
    [][(in_pc = "merge" \/ in_pc = "place") =>
          \A t \in RunTempDirs :
             What(fs', Join(MergeSrc, LastName(t))) = What(fs, Join(MergeSrc, LastName(t)))]_vars

\* C25: the merge of the repo leaves an entry of the root with the name of
\* a temporary directory where it is; the merge of a dependency moves such
\* an entry to external\SDL2 (external\SDL2_image) like any other.  No
\* merge puts anything into a temporary directory of the run.
C25_RepoMergeSkipsTempNames ==
    [][((in_pc = "merge" \/ in_pc = "place") /\ trace' # trace) =>
          /\ \A t \in RunTempDirs, q \in Paths(fs') :
                IsPrefix(t, q) => What(fs, q) = What(fs', q)
          /\ \A t \in RunTempDirs :
                LET n == LastName(t)
                IN  IF in_pc = "merge"
                      THEN What(fs', Join(repoRoot, n)) = What(fs, Join(repoRoot, n))
                      ELSE ~fatal' =>
                              What(fs', Join(DstDir[arch], n)) = What(fs, Join(TmpDir[arch], n))]_vars

C25_Witness ==
    /\ in_pc = "done" /\ ~fatal
    /\ <<"w1", ".downloads">> \in archives[1].f
    /\ <<"w1", ".downloads">> \in archives[2].f
    /\ is_file(fs, Join(DstDir[2], ".downloads"))
    /\ is_file(fs, DstDir[2] \o <<".tmp_sdl2", "x">>)
    /\ \A t \in RunTempDirs : ~path_exists(fs, t)

CreateFailed == dl_pc = "fatal" /\ dl_err = "FileSystemError" /\ status = 0

\* C27: the destination file is created, empty, before the first request:
\* no answer is received without it, and however the fetch goes on after
\* the creation, the file exists.
C27_FileCreatedFirst ==
    /\ []((dl_pc # "start" /\ ~CreateFailed) => outFile # NoFile)
    /\ [][(dl_pc = "start" /\ ~CreateFailed') => outFile' = 0]_vars
    /\ [][(status' # status \/ url' # url \/ totalGot' # totalGot) => outFile # NoFile]_vars

C27_Witness ==
    /\ dl_pc = "fatal" /\ dl_err = "RedirectError"
    /\ hop > 0 /\ outFile = 0

\* A step in which the answer to a request is received and handled.
Answered == dl_pc = "loop" /\ hop < HopLimit /\ ~(dl_pc' = "fatal" /\ dl_err' = "NetworkError")

\* C28 as stated: every answer with a 3xx status and a Location header is
\* followed: the loop goes on with the next hop.
C28_Any3xxFollowed ==
    [][(Answered /\ status' \in 300..399 /\ location') =>
          (dl_pc' = "loop" /\ hop' = hop + 1)]_vars

\* C28: an answer with status 301, 302, 303, 307 or 308 and a Location
\* header is followed: the file is emptied, the counter reset and the loop
\* goes on with the next hop.  Any other 3xx status is a final status, and
\* as it is not 200 the fetch ends with HttpStatusError, Location or not.
C28_ListedRedirectsFollowed ==
    [][(Answered /\ status' \in 300..399) =>
          IF status' \in {301, 302, 303, 307, 308}
            THEN IF location'
                   THEN /\ dl_pc' = "loop" /\ hop' = hop + 1 /\ url' = url + 1
                        /\ outFile' = 0 /\ totalGot' = 0 /\ dl_err' = dl_err
                   ELSE dl_pc' = "fatal" /\ dl_err' = "RedirectError"
            ELSE dl_pc' = "fatal" /\ dl_err' = "HttpStatusError"]_vars

C28_Witness ==
    /\ dl_pc = "fatal" /\ dl_err = "HttpStatusError"
    /\ status = 300 /\ location /\ hop > 0

\* The answer handled in this step is a final one: its status is none the
\* code follows.
AnsweredFinal == Answered /\ status' \notin {301, 302, 303, 307, 308}

\* C29 as stated: a final answer ends the fetch with HttpStatusError
\* exactly when its status is not 2xx.
C29_FatalExactlyWhenNot2xx ==
    [][AnsweredFinal =>
          ((dl_pc' = "fatal" /\ dl_err' = "HttpStatusError") <=> status' \notin 200..299)]_vars

\* C29: a final answer ends the fetch with HttpStatusError exactly when its
\* status is not 200, and then no byte of a body is in the file; after a
\* 200 the body is read, and a fetch that returns after it has the whole
\* body in the file.
C29_FatalExactlyWhenNot200 ==
    /\ [][AnsweredFinal =>
            IF status' = 200
              THEN dl_pc' = "body" /\ dl_err' = dl_err /\ totalGot' = 0
              ELSE /\ dl_pc' = "fatal" /\ dl_err' = "HttpStatusError"
                   /\ outFile' = 0 /\ totalGot' = 0]_vars
    /\ []((dl_pc = "fatal" /\ dl_err = "HttpStatusError") => (status # 200 /\ outFile = 0))
    /\ []((DlReturned /\ status = 200) => (outFile = srv.body /\ totalGot = srv.body))

C29_Witness ==
    /\ dl_pc = "fatal" /\ dl_err = "HttpStatusError"
    /\ status = 204 /\ srv.body > 0 /\ outFile = 0

\* The answer being read declared a length above zero.
Declared == hasLen /\ totalLen > 0

\* C30: while the body of an answer with a declared length above zero is
\* read, the bar is set after every chunk to the whole part of
\* totalGot * 100 / totalLen, at most 100, is within 0..100 and never goes
\* down; while the body of an answer without one is read, the bar is in
\* marquee mode and is given no percentage.
C30_ProgressIsExactPercentage ==
    /\ [](bar \in 0..100)
    /\ [][(dl_pc = "body" /\ Declared /\ totalGot' # totalGot) =>
            /\ bar' = Min(100, (totalGot' * 100) \div totalLen)
            /\ (totalGot' <= totalLen => bar' = (totalGot' * 100) \div totalLen)
            /\ bar' >= bar
            /\ ~usedMarquee]_vars
    /\ [][(dl_pc = "body" /\ ~Declared) => (usedMarquee /\ bar' = bar)]_vars

C30_Witness ==
    /\ dl_pc = "body" /\ Declared
    /\ totalLen = 3 * ByteUnit /\ totalGot = ByteUnit /\ bar = 33

\* C31: a fetch that gets to its end returns, whatever the size of the
\* file; a file under 1 KiB, an empty one too, is warned about and is no
\* error, and no warning is logged for a larger file.
C31_SmallFileIsOnlyWarned ==
    /\ [][dl_pc = "finish" =>
            /\ dl_pc' = "done" /\ dl_err' = "none" /\ outFile' = outFile
            /\ smallWarned' = (outFile < SmallSize)]_vars
    /\ []((DlReturned /\ outFile < SmallSize) => (smallWarned /\ dl_err = "none"))
    /\ []((DlReturned /\ outFile >= SmallSize) => ~smallWarned)

C31_Witness ==
    /\ DlReturned /\ status = 200 /\ srv.chain = 0
    /\ outFile = ByteUnit /\ smallWarned /\ dl_err = "none"

(***************************************************************************)
(* Claims about the moves.                                                 *)
(***************************************************************************)
\* dst is a file with what src held, and src is gone.
Moved(before, after) ==
    /\ is_file(after, MvDst) /\ after.files[MvDst] = before.files[MvSrc]
    /\ ~path_exists(after, MvSrc)

\* C32: after move_file_safe returns, dst is a file with the content src
\* had and src is gone, whatever was at dst and whether the file was
\* renamed or copied and deleted.
C32_MoveFileOverwrites ==
    (fl_op = "move_file" /\ ~fatal) => Moved(fl_before, fs)

\* It holds of the calls in which no delete failed unseen: of the rename,
\* and of the copy when src could be deleted after it.
MoveFileOverwritesUnlessKept ==
    (fl_op = "move_file" /\ ~fatal /\ "DeleteFileW" \notin ignored) => Moved(fl_before, fs)
\* When the delete after the copy fails the call returns all the same,
\* and both files are there.
MoveFileKeepsSource ==
    (fl_op = "move_file" /\ ~fatal /\ "DeleteFileW" \in ignored) =>
        /\ is_file(fs, MvDst) /\ fs.files[MvDst] = fl_before.files[MvSrc]
        /\ is_file(fs, MvSrc) /\ fs.files[MvSrc] = fl_before.files[MvSrc]

\* C33: after move_tree_safe returns from a directory src, src and every
\* directory that was under it are gone.
C33_SourceDirsRemoved ==
    (fl_op = "move_tree" /\ ~fatal /\ is_dir(fl_before, MvSrc)) =>
        \A q \in fl_before.dirs : IsPrefix(MvSrc, q) => ~path_exists(fs, q)

\* What is gone is all that was under src; src itself stays, empty (no
\* delete having failed unseen).
MoveTreeLeavesSource ==
    (fl_op = "move_tree" /\ ~fatal /\ is_dir(fl_before, MvSrc)
        /\ "DeleteFileW" \notin ignored) =>
        /\ is_dir(fs, MvSrc)
        /\ \A q \in Paths(fs) : IsPrefix(MvSrc, q) => q = MvSrc

\* The path under dst of the entry p under src, and the other way round.
AtDst(p) == MvDst \o SubSeq(p, Len(MvSrc) + 1, Len(p))
AtSrc(q) == MvSrc \o SubSeq(q, Len(MvDst) + 1, Len(q))

\* After a call of move_tree_safe on a directory src that returned: the
\* files that were under src are under dst with their content, no file is
\* under src, and the files under dst at other paths are as they were.
ContentMoved(before, after) ==
    /\ \A p \in DOMAIN before.files :
          IsPrefix(MvSrc, p) =>
             (is_file(after, AtDst(p)) /\ after.files[AtDst(p)] = before.files[p])
    /\ \A p \in DOMAIN after.files : ~IsPrefix(MvSrc, p)
    /\ \A q \in DOMAIN before.files :
          (IsPrefix(MvDst, q) /\ ~path_exists(before, AtSrc(q))) =>
             (is_file(after, q) /\ after.files[q] = before.files[q])

\* C35: move_tree_safe on a directory keeps the content: see ContentMoved.
C35_MoveTreeKeepsContent ==
    (fl_op = "move_tree" /\ ~fatal /\ is_dir(fl_before, MvSrc)) =>
        ContentMoved(fl_before, fs)

\* It holds of the calls in which no delete of a copied file failed unseen.
MoveTreeKeepsContentUnlessKept ==
    (fl_op = "move_tree" /\ ~fatal /\ is_dir(fl_before, MvSrc)
        /\ "DeleteFileW" \notin ignored) =>
        ContentMoved(fl_before, fs)

\* C36: a move_file_safe that ends in the fatal error leaves a file that was
\* at dst in place, with the content it had or with the content of src.
C36_FailedMoveKeepsDestination ==
    (fl_op = "move_file" /\ fatal /\ is_file(fl_before, MvDst)) =>
        /\ is_file(fs, MvDst)
        /\ fs.files[MvDst] \in {fl_before.files[MvDst], fl_before.files[MvSrc]}

\* What it does instead: the file at dst was deleted before the move was tried.
FailedMoveLosesDestination ==
    (fl_op = "move_file" /\ fatal /\ is_file(fl_before, MvDst)) =>
        (~path_exists(fs, MvDst) /\ is_file(fs, MvSrc))

(***************************************************************************)
(* Claims about the window and the run as a whole.                         *)
(***************************************************************************)
\* install_run is between its first statement and its end.
RunInProgress == in_pc \notin {"idle", "returned", "done"}

\* WndProc has answered a WM_CLOSE in this step.
CloseAnswered == wnd' # wnd \/ beeped' # beeped

\* C34: while install_run is in progress a WM_CLOSE is refused and the
\* window stays; after the run has ended without fatal error, completed or
\* cancelled at the folder dialog, a WM_CLOSE destroys the window.
C34_CloseOnlyAfterTheRun ==
    /\ [](RunInProgress => wnd)
    /\ [][(RunInProgress /\ CloseAnswered) => (wnd' /\ beeped')]_vars
    /\ [][(~RunInProgress /\ ~fatal /\ CloseAnswered) => (~wnd' /\ beeped' = beeped)]_vars
    /\ [][InClose => CloseAnswered \/ (RunInProgress /\ beeped)]_vars

C34_Witness ==
    /\ in_pc = "returned" /\ ~fatal /\ ~wnd /\ beeped

C34_WitnessDone ==
    /\ in_pc = "done" /\ ~fatal /\ ~wnd /\ beeped /\ Went("Downloading", 3)

\* The kinds of disk a run starts on.
DiskKinds == {"fresh", "again", "blocked", "file"}

\* Since the disk was f0 the run has made the install directory, its
\* temporary directories and the ZIP files up to the one at work, and has
\* changed nothing else.
OnlyDownloaded(f0, f) ==
    /\ Paths(f) \ Paths(f0)
          \subseteq ({installDir} \cup RunTempDirs \cup {ZipPath[i] : i \in 1..arch})
    /\ \A q \in Paths(f0) : What(f, q) = What(f0, q)

\* C37: the three downloads come before the first extraction and the first
\* merge; so a run that fails in a download has only made its temporary
\* directories and ZIP files, and what was on the disk is as it was.
C37_DownloadsBeforeAnyMerge ==
    /\ [](\A i \in 1..Len(trace) :
            trace[i][1] \in {"Extracting", "LocatingRoot", "Merging", "Flattening",
                             "FlatteningToolchain", "CleaningUp"} =>
               \A a \in 1..3 : \E j \in 1..(i - 1) : trace[j] = <<"Downloading", a>>)
    /\ \A k \in DiskKinds :
          (fs = Disk(k)) => []((fatal /\ in_pc = "download") => OnlyDownloaded(Disk(k), fs))

C37_Witness ==
    /\ fatal /\ in_pc = "download" /\ arch = 3
    /\ is_file(fs, ZipPath[2]) /\ is_file(fs, ZipPath[3])
    /\ is_dir(fs, TmpDir[1]) /\ ChildNames(fs, TmpDir[1]) = {}
    /\ is_file(fs, installDir \o <<"external", "SDL2", "old">>)

\* C38: when the user cancels the folder dialog install_run returns
\* without fatal error, with g_ui.installing cleared, without a change to
\* the file system and without a download; nothing of the run follows.
C38_CancelChangesNothing ==
    /\ [][(in_pc = "pick" /\ in_pc' = "returned") =>
            /\ fs' = fs /\ ~fatal' /\ ignored' = ignored
            /\ installing /\ ~installing'
            /\ log' = Append(log, <<"Cancelled by user.", "INFO">>)]_vars
    /\ \A k \in DiskKinds :
          (fs = Disk(k)) =>
             [](in_pc = "returned" =>
                  /\ fs = Disk(k) /\ ~fatal /\ ~installing
                  /\ trace = <<<<"SelectingDestination", 0>>>>
                  /\ DlIdle)
    /\ [][in_pc = "returned" => in_pc' = "returned"]_vars

C38_Witness ==
    /\ in_pc = "returned" /\ ~fatal /\ ~installing /\ fs = Disk("fresh")
    /\ ~path_exists(fs, installDir) /\ ~Went("Downloading", 1)
    /\ log = <<<<"Cancelled by user.", "INFO">>>>

(***************************************************************************)
(* Claims about the camera.                                                *)
(***************************************************************************)
\* C39: after cam_clamp the camera is at 0 on an axis on which the world is
\* not larger than the view, and between 0 and world - view on an axis on
\* which it is larger.
C39_CameraLockedOrInside ==
    cam_pc = "returned" =>
        /\ world_w <= view_w => cam_x = 0
        /\ world_h <= view_h => cam_y = 0
        /\ world_w > view_w => (0 <= cam_x /\ cam_x <= world_w - view_w)
        /\ world_h > view_h => (0 <= cam_y /\ cam_y <= world_h - view_h)

\* What it does: inside where the world is larger, and at world - view,
\* which is below 0 for a smaller world, where it is not.
CameraAtWorldMinusView ==
    cam_pc = "returned" =>
        /\ world_w <= view_w => cam_x = world_w - view_w
        /\ world_h <= view_h => cam_y = world_h - view_h
        /\ world_w > view_w => (0 <= cam_x /\ cam_x <= world_w - view_w)
        /\ world_h > view_h => (0 <= cam_y /\ cam_y <= world_h - view_h)

====
